---- MODULE Spec2Model ----
(***************************************************************************)
(* interact-fb: the resilient invocation core of the Facebook Graph client *)
(*   errors.js  createFacebookError / handleError  (error classification)  *)
(*   graph.js   graphAPI (timeout, retry, backoff), batchGraphAPI          *)
(*   utils.js   resolveAccessToken and the process-wide token cache        *)
(*   leads.js   getAllLeads (cursor pagination)                            *)
(*   leads.js, forms.js  the fan-out over several forms or pages           *)
(*   config.js  setConfig / getConfig / resetConfig and per-call options    *)
(*   pages.js   getManagedPage / managesPage                                *)
(*   profile, pages, posts, comments, forms, leads: the token each helper   *)
(*              hands to graphAPI                                           *)
(* Each component is a state machine over its own variables; a component's *)
(* specification steps that component and leaves the others unchanged.     *)
(***************************************************************************)
EXTENDS Integers, Sequences, FiniteSets, TLC

VARIABLES
  \* ---- graphAPI (graph.js), one call
  gPc,          \* "idle" | "awaiting" | "rejecting" | "sleeping" | "returned" | "thrown"
  gArgs,        \* the arguments accessToken, method and params of the call
  gRequest,     \* url.search and requestOptions, as every fetch of the call is given them
  retryAttempts,\* options.retryAttempts of the call
  retryDelay,   \* options.retryDelay of the call
  attempt,      \* the loop variable
  aborted,      \* controller.signal.aborted
  timerArmed,   \* timeoutId is pending (set and neither fired nor cleared)
  lastError,    \* let lastError
  gHttp,        \* number of HTTP requests put on the wire by this call
  gSleeps,      \* the backoff delays slept, in order
  gLog,         \* outcome of every settled attempt, in order
  gResult,      \* the error thrown (NoError unless gPc = "thrown")
  \* ---- the token cache (utils.js), process-wide
  cachedAccessToken,    \* let cachedAccessToken (Null: null, 0: "", > 0: a token)
  cachedExpiresAtMs,    \* let cachedExpiresAtMs
  inFlightTokenPromise, \* let inFlightTokenPromise (0: null, else index in tPromises)
  now,                  \* Date.now()
  sdkLoaded,            \* typeof FB !== 'undefined' && typeof FB.getLoginStatus === 'function'
  tPromises,            \* the credential-source resolutions started, in order
  tCalls,               \* the resolveAccessToken calls made, in order
  tDisturbed,           \* a finally-cleanup, setAccessToken or clearAccessToken has happened
  tClearedAt,           \* the number of resolutions started when clearAccessToken last ran;
                        \* Null before any clear and once a later setAccessToken or a
                        \* resolution started after the clear has succeeded
  \* ---- getAllLeads (leads.js), one call
  lPc,          \* "idle" | "fetching" | "returned" | "thrown"
  maxLeads,     \* options.maxLeads
  allLeads,     \* const allLeads: the items collected, each <<fetch number, position>>
  hasNextPage,  \* let hasNextPage
  after,        \* let after (0: undefined)
  optionsAfter, \* options.after as the caller passed it (0: undefined)
  fetchedCount, \* let fetchedCount
  lFetches,     \* the getLeads calls issued, in order, each with its response
  lError,       \* the error thrown (NoError unless lPc = "thrown")
  \* ---- batchGraphAPI (graph.js), one call
  bPc,          \* "idle" | "calling" | "returned" | "thrown"
  requests,     \* requests.length (Null: requests is no array); request k of the
                \* input is written k
  bI,           \* the loop variable i
  results,      \* const results
  bGroups,      \* the batches handed to graphAPI, in order, each a sequence of requests
  bCause,       \* the error the failing group's graphAPI call threw (NoError: none)
  bError,       \* the error thrown (NoError unless bPc = "thrown")
  \* ---- createFacebookError and handleError (errors.js), one error
  eBody,        \* the fbError argument, given by its code (NoBody: absent)
  eStatus,      \* the statusCode argument (Null: null)
  eError,       \* the error returned (NoError before the first application)
  eSource,      \* the error as the first catch block received it (NoError: none yet)
  eChain,       \* the error as each catch block on its way out left it, in order
  \* ---- getLeadsFromMultipleForms (leads.js) / getLeadFormsFromMultiplePages
  \* ---- (forms.js), one call
  mPc,          \* "idle" | "awaiting" | "returned" | "thrown"
  mFn,          \* which of the two functions was called
  mIsArray,     \* Array.isArray(formIds) / Array.isArray(pageIds)
  mIds,         \* formIds / pageIds (<<>> when it is no array)
  parallel,     \* options.parallel (the fan-out over pages is always parallel)
  mResponses,   \* what each identifier's fetch settled with, by input position
  mOrder,       \* the input positions in the order their fetches settled
  mResults,     \* const results
  mError,       \* the error thrown (NoError unless mPc = "thrown")
  \* ---- the global configuration (config.js) and the graphAPI calls reading it
  globalConfig, \* let globalConfig
  kCalls,       \* the graphAPI calls made, in order: the options each was passed,
                \* the settings it runs with, and whether it has ended
  \* ---- graphAPI calls running side by side (graph.js), by call
  pPc,          \* "idle" | "awaiting" | "sleeping" | "returned" | "thrown"
  pRetry,       \* retryAttempts of the call
  pAttempt,     \* the loop variable of the call
  pTimerArmed,  \* the call's timeoutId is pending
  pTimerFired,  \* the call's timeout callback has run
  pAborted,     \* signal.aborted, by AbortController
  pAbortSeen,   \* an attempt of the call has rejected with AbortError
  \* ---- managesPage (pages.js), one call
  qPc,          \* "idle" | "getPages" | "getManagedPage" | "managesPage" | "returned" | "thrown"
  qPageId,      \* the pageId argument
  qPages,       \* what getPages settled with: a response or an error
  qPage,        \* what getManagedPage settled with: "page", "null" or "throw"
  qResult,      \* what managesPage returned ("none" before it has)
  \* ---- a resource helper called with an optional token, one call
  hPc,          \* "idle" | "preparing" | "fetching" | "returned" | "thrown"
  hHelper,      \* the helper called
  hGiven,       \* its accessToken argument (NoTokenArg: none passed)
  hSession,     \* what the Facebook SDK reports: "connected" | "unknown" | "nosdk"
  hStep,        \* the graphAPI call of the helper being prepared or awaited
  hCarried      \* the access_token of every HTTP request issued, in order

graphVars == <<gPc, gArgs, gRequest, retryAttempts, retryDelay, attempt, aborted, timerArmed,
               lastError, gHttp, gSleeps, gLog, gResult>>

tokenVars == <<cachedAccessToken, cachedExpiresAtMs, inFlightTokenPromise, now,
               sdkLoaded, tPromises, tCalls, tDisturbed, tClearedAt>>

leadsVars == <<lPc, maxLeads, allLeads, hasNextPage, after, optionsAfter,
               fetchedCount, lFetches, lError>>

batchVars == <<bPc, requests, bI, results, bGroups, bCause, bError>>

errorVars == <<eBody, eStatus, eError, eSource, eChain>>

multiVars == <<mPc, mFn, mIsArray, mIds, parallel, mResponses, mOrder, mResults, mError>>

configVars == <<globalConfig, kCalls>>

pairVars == <<pPc, pRetry, pAttempt, pTimerArmed, pTimerFired, pAborted, pAbortSeen>>

pageVars == <<qPc, qPageId, qPages, qPage, qResult>>

helperVars == <<hPc, hHelper, hGiven, hSession, hStep, hCarried>>

\* what a step of one component leaves alone
exceptGraph ==
  <<tokenVars, leadsVars, batchVars, errorVars, multiVars, configVars, pairVars, pageVars,
    helperVars>>
exceptToken ==
  <<graphVars, leadsVars, batchVars, errorVars, multiVars, configVars, pairVars, pageVars,
    helperVars>>
exceptLeads ==
  <<graphVars, tokenVars, batchVars, errorVars, multiVars, configVars, pairVars, pageVars,
    helperVars>>
exceptBatch ==
  <<graphVars, tokenVars, leadsVars, errorVars, multiVars, configVars, pairVars, pageVars,
    helperVars>>
exceptError ==
  <<graphVars, tokenVars, leadsVars, batchVars, multiVars, configVars, pairVars, pageVars,
    helperVars>>
exceptMulti ==
  <<graphVars, tokenVars, leadsVars, batchVars, errorVars, configVars, pairVars, pageVars,
    helperVars>>
exceptConfig ==
  <<graphVars, tokenVars, leadsVars, batchVars, errorVars, multiVars, pairVars, pageVars,
    helperVars>>
exceptPair ==
  <<graphVars, tokenVars, leadsVars, batchVars, errorVars, multiVars, configVars, pageVars,
    helperVars>>
exceptPage ==
  <<graphVars, tokenVars, leadsVars, batchVars, errorVars, multiVars, configVars, pairVars,
    helperVars>>
exceptHelper ==
  <<graphVars, tokenVars, leadsVars, batchVars, errorVars, multiVars, configVars, pairVars,
    pageVars>>

(***************************************************************************)
(* errors.js                                                               *)
(***************************************************************************)

\* null / undefined / absent
Null == -1

\* data.error absent in a failed response
NoBody == -1

FacebookKinds ==
  {"FacebookSDKError", "FacebookAuthError", "FacebookAPIError",
   "FacebookPermissionError", "FacebookTimeoutError"}

\* An error object.  msg abstracts the message to what the code tests of it:
\* "fetch" (message.includes('fetch')), "timeout" (includes('timeout')), "other".
\* fbCode stands for the fbError member (Null: none), missingPermissions is
\* Null in the kinds that have no such member.
MkError(name, code, statusCode, fbCode, msg) ==
  [name |-> name, code |-> code, statusCode |-> statusCode, fbCode |-> fbCode,
   msg |-> msg, missingPermissions |-> Null,
   context |-> "", metaAttempt |-> Null, metaBatchSize |-> Null]

NoError == MkError("none", "", Null, Null, "other")

\* ERROR_CODE_MAP[code] || 'API_ERROR'
ERROR_CODE_MAP(code) ==
  CASE code = 1   -> "API_UNKNOWN"
    [] code = 2   -> "API_SERVICE"
    [] code = 4   -> "API_TOO_MANY_CALLS"
    [] code = 10  -> "PERMISSION_DENIED"
    [] code = 100 -> "API_PARAMETER"
    [] code = 190 -> "AUTH_TOKEN_INVALID"
    [] code = 200 -> "PERMISSION_DENIED"
    [] code = 613 -> "API_TOO_MANY_CALLS"
    [] OTHER      -> "API_ERROR"

\* createFacebookError(fbError, statusCode); fbError is given by its code
createFacebookErrorByStatus(fbCode, statusCode) ==
  IF statusCode = 401
    THEN MkError("FacebookAuthError", "AUTH_TOKEN_INVALID", Null, Null, "other")
  ELSE IF statusCode = 403
    THEN [MkError("FacebookPermissionError", "PERMISSION_DENIED", Null, Null, "other")
            EXCEPT !.missingPermissions = <<>>]
  ELSE MkError("FacebookAPIError", ERROR_CODE_MAP(fbCode), statusCode, fbCode, "other")
createFacebookErrorUnknown(fbCode, statusCode) ==
  MkError("FacebookAPIError", "API_UNKNOWN", statusCode, Null, "other")
createFacebookError(fbCode, statusCode) ==
  IF fbCode = NoBody
    THEN MkError("FacebookAPIError", "API_UNKNOWN", statusCode, Null, "other")
  ELSE IF fbCode \in {190, 102, 459}
    THEN MkError("FacebookAuthError", "AUTH_TOKEN_INVALID", Null, Null, "other")
  ELSE IF fbCode \in {10, 200}
    THEN [MkError("FacebookPermissionError", "PERMISSION_DENIED", Null, Null, "other")
            EXCEPT !.missingPermissions = <<>>]
  ELSE IF fbCode \in {4, 613}
    THEN MkError("FacebookAPIError", "API_RATE_LIMIT", statusCode, fbCode, "other")
  ELSE MkError("FacebookAPIError", ERROR_CODE_MAP(fbCode), statusCode, fbCode, "other")

\* handleError(error, context, metadata)
handleErrorAsGeneric(error, context, metaAttempt, metaBatchSize) ==
  [MkError("FacebookAPIError", "GENERIC_ERROR", Null, Null, "other")
     EXCEPT !.context = context, !.metaAttempt = metaAttempt,
            !.metaBatchSize = metaBatchSize]
handleError(error, context, metaAttempt, metaBatchSize) ==
  IF error.name \in FacebookKinds
    THEN [error EXCEPT !.context = context, !.metaAttempt = metaAttempt,
                       !.metaBatchSize = metaBatchSize]
  ELSE IF error.name = "TypeError" /\ error.msg = "fetch"
    THEN [MkError("FacebookAPIError", "NETWORK_ERROR", Null, Null, "other")
            EXCEPT !.context = context, !.metaAttempt = metaAttempt,
                   !.metaBatchSize = metaBatchSize]
  ELSE IF error.name = "AbortError" \/ error.msg = "timeout"
    THEN [MkError("FacebookTimeoutError", "TIMEOUT_ERROR", Null, Null, "timeout")
            EXCEPT !.context = context, !.metaAttempt = metaAttempt,
                   !.metaBatchSize = metaBatchSize]
  ELSE [MkError("FacebookAPIError", "GENERIC_ERROR", Null, Null, "other")
          EXCEPT !.context = context, !.metaAttempt = metaAttempt,
                 !.metaBatchSize = metaBatchSize]

\* the error bodies createFacebookError is applied to, by code: none, the codes
\* the switch names, one ERROR_CODE_MAP alone names, and codes neither names
ErrorBodies == {NoBody, 1, 2, 4, 10, 100, 102, 190, 200, 459, 613, 3, 17, 803}
\* the statusCode arguments: null (the default), 2xx, 4xx, 5xx
StatusArgs == {Null, 200, 400, 401, 403, 404, 429, 500, 503}

\* createFacebookError(fbError, statusCode) is applied
ClassifyResponse ==
  /\ eChain = <<>>
  /\ \E fbCode \in ErrorBodies, statusCode \in StatusArgs :
       /\ eBody' = fbCode
       /\ eStatus' = statusCode
       /\ eError' = createFacebookError(fbCode, statusCode)
  /\ UNCHANGED <<eSource, eChain>>
  /\ UNCHANGED exceptError

MaxLayers == 3

\* the catch blocks an error passes on its way out, each with the context and
\* the metadata (attempt, batchSize) it hands to handleError
Boundaries ==
  {<<"graphAPI", 1, Null>>, <<"getLeads", Null, Null>>,
   <<"getAllLeads", Null, Null>>, <<"batchGraphAPI", Null, 50>>}

\* what a catch block can receive first: the classified error of a response,
\* an error of the token resolution, or an error that is none of the five kinds
CaughtErrors ==
  (IF eError # NoError THEN {eError} ELSE {})
    \cup {MkError("FacebookTimeoutError", "REQUEST_TIMEOUT", Null, Null, "timeout"),
          MkError("FacebookSDKError", "NO_TOKEN", Null, Null, "other"),
          MkError("TypeError", "", Null, Null, "fetch"),
          MkError("TypeError", "", Null, Null, "other"),
          MkError("AbortError", "", Null, Null, "other"),
          MkError("Error", "", Null, Null, "timeout"),
          MkError("SyntaxError", "", Null, Null, "other")}

\* catch (error) { throw handleError(error, context, metadata) } at the first
\* boundary the error reaches
ErrorCaught ==
  /\ eChain = <<>>
  /\ \E src \in CaughtErrors, b \in Boundaries :
       /\ eSource' = src
       /\ eChain' = <<handleError(src, b[1], b[2], b[3])>>
  /\ UNCHANGED <<eBody, eStatus, eError>>
  /\ UNCHANGED exceptError

\* the rethrown error reaches the catch block of the caller
ErrorPropagates ==
  /\ eChain # <<>>
  /\ Len(eChain) < MaxLayers
  /\ \E b \in Boundaries :
       eChain' = Append(eChain, handleError(eChain[Len(eChain)], b[1], b[2], b[3]))
  /\ UNCHANGED <<eBody, eStatus, eError, eSource>>
  /\ UNCHANGED exceptError

ErrorInit ==
  /\ eBody = NoBody
  /\ eStatus = Null
  /\ eError = NoError
  /\ eSource = NoError
  /\ eChain = <<>>

ErrorNext ==
  \/ ClassifyResponse
  \/ ErrorCaught
  \/ ErrorPropagates

(***************************************************************************)
(* graph.js: graphAPI                                                      *)
(***************************************************************************)

\* largest retryAttempts a call is given
MaxRetry == 2
\* largest retryDelay a call is given
MaxDelay == 2

\* HTTP statuses the provider answers with
Statuses == {200, 400, 401, 403, 429, 500}
\* error bodies of failed responses: none, API_PARAMETER, token invalid, permission
BodyCodes == {NoBody, 100, 190, 10}

\* the accessToken argument
AccessTokens == {"EAAB", "EAAC"}
\* the method argument
Methods == {"GET", "get", "POST"}
\* the params argument: {} and { fields: 'id' }
NoParams == [k \in {} |-> ""]
ParamChoices == {NoParams, [k \in {"fields"} |-> "id"]}

\* String.prototype.toUpperCase()
toUpperCase(str) == IF str = "get" THEN "GET" ELSE str

\* `Bearer ${accessToken}`
Bearer(accessToken) == "Bearer " \o accessToken

\* JSON.stringify(params): the JSON text of an object, written by its members
JSONstringify(params) == <<"json", params>>

\* new URLSearchParams({ access_token: accessToken, ...params })
URLSearchParams(accessToken, params) == params @@ ("access_token" :> accessToken)

\* url.search and requestOptions as graphAPI builds them before the loop;
\* search and headers are empty when nothing is put in them, body is <<>>
\* when requestOptions has no body
BuildRequest(accessToken, method, params) ==
  LET isGet == toUpperCase(method) = "GET" IN
  [method |-> method,
   search |-> IF isGet /\ DOMAIN params # {}
                THEN URLSearchParams(accessToken, params)
                ELSE NoParams,
   headers |-> IF isGet
                 THEN NoParams
                 ELSE ("Content-Type" :> "application/json")
                        @@ ("Authorization" :> Bearer(accessToken)),
   body |-> IF isGet THEN <<>> ELSE JSONstringify(params)]

\* response.ok
ResponseOk(status) == status >= 200 /\ status <= 299

\* the errors fetch / response.json() reject with
AbortError  == MkError("AbortError", "", Null, Null, "other")
FetchTypeError == MkError("TypeError", "", Null, Null, "fetch")
JsonSyntaxError == MkError("SyntaxError", "", Null, Null, "other")
timeoutError == MkError("FacebookTimeoutError", "REQUEST_TIMEOUT", Null, Null, "timeout")

RECURSIVE Pow2(_)
Pow2(n) == IF n <= 0 THEN 1 ELSE 2 * Pow2(n - 1)

\* retryDelay * Math.pow(2, attempt)
BackoffConstant(delay, n) == delay
Backoff(delay, n) == delay * Pow2(n)

\* response.status >= 400 && response.status < 500 && response.status !== 429
IsClientError(status) == status >= 400 /\ status < 500 /\ status # 429

\* response.status >= 500 || response.status === 429
OnlyServerErrorsRetryable(status) == status >= 500
IsRetryableStatus(status) == status >= 500 \/ status = 429

\* error.name === 'FacebookAuthError' || error.name === 'FacebookPermissionError'
NeverNonRetryable(name) == FALSE
IsNonRetryableName(name) == name \in {"FacebookAuthError", "FacebookPermissionError"}

LogEntry(status, name) == [status |-> status, name |-> name, http |-> gHttp]

\* await sleep(retryDelay * Math.pow(2, attempt)); continue
SleepAndContinue(err) ==
  /\ lastError' = err
  /\ gSleeps' = Append(gSleeps, Backoff(retryDelay, attempt))
  /\ gPc' = "sleeping"
  /\ gResult' = gResult

\* an error leaving graphAPI
Throw(err) ==
  /\ gPc' = "thrown"
  /\ gResult' = err
  /\ gSleeps' = gSleeps

\* the catch block, entered with `error`; timeoutId is cleared first
CatchBlock(error) ==
  IF error.name = "AbortError"
    THEN IF attempt < retryAttempts
           THEN SleepAndContinue(timeoutError)
           ELSE Throw(timeoutError) /\ lastError' = lastError
  ELSE IF error.name = "TypeError" /\ error.msg = "fetch" /\ attempt < retryAttempts
    THEN SleepAndContinue(error)
  ELSE IF IsNonRetryableName(error.name)
    THEN Throw(error) /\ lastError' = lastError
  ELSE IF attempt < retryAttempts
    THEN SleepAndContinue(error)
  ELSE \* break; handleError(lastError, `graphAPI(${endpoint})`, {.., attempt: retryAttempts + 1})
       /\ lastError' = error
       /\ Throw(handleError(error, "graphAPI", retryAttempts + 1, Null))

\* graphAPI(...) up to the first await fetch(...)
GraphCall ==
  /\ gPc = "idle"
  /\ \E r \in 0..MaxRetry, d \in 1..MaxDelay :
       /\ retryAttempts' = r
       /\ retryDelay' = d
  /\ \E accessToken \in AccessTokens, method \in Methods, params \in ParamChoices :
       /\ gArgs' = [accessToken |-> accessToken, method |-> method, params |-> params]
       /\ gRequest' = BuildRequest(accessToken, method, params)
  /\ attempt' = 0
  /\ aborted' = FALSE
  /\ timerArmed' = TRUE
  /\ gHttp' = 1
  /\ gPc' = "awaiting"
  /\ UNCHANGED <<lastError, gSleeps, gLog, gResult>>
  /\ UNCHANGED exceptGraph

\* the provider answers the pending request with a JSON body
ProviderResponds ==
  /\ gPc = "awaiting"
  /\ \E status \in Statuses, fbCode \in BodyCodes :
       LET fbError == createFacebookError(fbCode, status) IN
       /\ timerArmed' = FALSE
       /\ IF ResponseOk(status)
            THEN /\ gPc' = "returned"
                 /\ gLog' = Append(gLog, LogEntry(status, "ok"))
                 /\ UNCHANGED <<lastError, gSleeps, gResult>>
            ELSE /\ gLog' = Append(gLog, LogEntry(status, fbError.name))
                 /\ IF IsClientError(status)
                      THEN CatchBlock(fbError)
                    ELSE IF attempt < retryAttempts /\ IsRetryableStatus(status)
                      THEN SleepAndContinue(fbError)
                    ELSE CatchBlock(fbError)
  /\ UNCHANGED <<gArgs, gRequest, retryAttempts, retryDelay, attempt, aborted, gHttp>>
  /\ UNCHANGED exceptGraph

\* the provider answers with a body that is not JSON: response.json() rejects
ProviderRespondsNonJson ==
  /\ gPc = "awaiting"
  /\ \E status \in Statuses :
       /\ timerArmed' = FALSE
       /\ gLog' = Append(gLog, LogEntry(status, "SyntaxError"))
       /\ CatchBlock(JsonSyntaxError)
  /\ UNCHANGED <<gArgs, gRequest, retryAttempts, retryDelay, attempt, aborted, gHttp>>
  /\ UNCHANGED exceptGraph

\* the transport fails: fetch rejects with TypeError
NetworkFails ==
  /\ gPc = "awaiting"
  /\ timerArmed' = FALSE
  /\ gLog' = Append(gLog, LogEntry(Null, "TypeError"))
  /\ CatchBlock(FetchTypeError)
  /\ UNCHANGED <<gArgs, gRequest, retryAttempts, retryDelay, attempt, aborted, gHttp>>
  /\ UNCHANGED exceptGraph

\* setTimeout(() => controller.abort(), timeout) fires: the pending fetch rejects
TimerFires ==
  /\ gPc = "awaiting"
  /\ timerArmed
  /\ timerArmed' = FALSE
  /\ aborted' = TRUE
  /\ gLog' = Append(gLog, LogEntry(Null, "FacebookTimeoutError"))
  /\ CatchBlock(AbortError)
  /\ UNCHANGED <<gArgs, gRequest, retryAttempts, retryDelay, attempt, gHttp>>
  /\ UNCHANGED exceptGraph

\* the backoff sleep ends: attempt++, fetch(url, requestOptions) with the same signal
SleepDone ==
  /\ gPc = "sleeping"
  /\ attempt' = attempt + 1
  /\ IF aborted
       THEN gPc' = "rejecting" /\ gHttp' = gHttp
       ELSE gPc' = "awaiting" /\ gHttp' = gHttp + 1
  /\ UNCHANGED <<gArgs, gRequest, retryAttempts, retryDelay, aborted, timerArmed, lastError,
                 gSleeps, gLog, gResult>>
  /\ UNCHANGED exceptGraph

\* fetch called with an already aborted signal rejects at once, nothing is sent
AbortedFetchRejects ==
  /\ gPc = "rejecting"
  /\ gLog' = Append(gLog, LogEntry(Null, "FacebookTimeoutError"))
  /\ CatchBlock(AbortError)
  /\ UNCHANGED <<gArgs, gRequest, retryAttempts, retryDelay, attempt, aborted, timerArmed, gHttp>>
  /\ UNCHANGED exceptGraph

GraphInit ==
  /\ gPc = "idle"
  /\ gArgs = [accessToken |-> "", method |-> "GET", params |-> NoParams]
  /\ gRequest = [method |-> "GET", search |-> NoParams, headers |-> NoParams, body |-> <<>>]
  /\ retryAttempts = 0
  /\ retryDelay = 1
  /\ attempt = 0
  /\ aborted = FALSE
  /\ timerArmed = FALSE
  /\ lastError = NoError
  /\ gHttp = 0
  /\ gSleeps = <<>>
  /\ gLog = <<>>
  /\ gResult = NoError

GraphNext ==
  \/ GraphCall
  \/ ProviderResponds
  \/ ProviderRespondsNonJson
  \/ NetworkFails
  \/ TimerFires
  \/ SleepDone
  \/ AbortedFetchRejects

(***************************************************************************)
(* utils.js: resolveAccessToken and the token cache                        *)
(***************************************************************************)

\* resolveAccessToken calls in a run
MaxCalls == 2
\* clock advances in a run
MaxTicks == 1
\* one clock advance, ms
TickMs == 5000

\* cachedExpiresAtMs > now + 5000
ExpiryMarginMs == 5000
\* now + 60 * 60 * 1000
DefaultTtlMs == 3600000

\* the token the credential source hands to resolution p: a fresh one each time
SourceToken(p) == 10 + p
\* authResponse.expiresIn / expiresInSeconds: absent, zero, ten seconds
ExpiresInChoices == {Null, 0, 10}
\* a string is written as a number: 0 is "", Blank a string of white space
\* only, anything larger a string with other characters in it
Blank == 1
\* <<maybeToken, useCache, forceRefresh>> of a call; maybeToken is null, "",
\* white space or a token
ResolveOptions ==
  {<<Null, TRUE, FALSE>>, <<0, TRUE, FALSE>>, <<Blank, TRUE, FALSE>>, <<4, TRUE, FALSE>>,
   <<Null, FALSE, FALSE>>, <<Null, TRUE, TRUE>>}
\* setAccessToken's token: not a string, "", a token
SetTokens == {Null, 0, 3}
\* the missingContext argument of the n-th call: every call names its own
MissingContextOf(n) == n

\* String.prototype.trim()
trim(str) == IF str = Blank THEN 0 ELSE str

\* typeof maybeToken === 'string' && maybeToken.trim().length > 0
NeverExplicitToken(maybeToken) == FALSE
IsExplicitToken(maybeToken) == maybeToken >= 0 /\ trim(maybeToken) > 0

\* cachedAccessToken && cachedExpiresAtMs > now + 5000
CacheValidUntilExpiry == cachedAccessToken > 0 /\ cachedExpiresAtMs > now
CacheValid == cachedAccessToken > 0 /\ cachedExpiresAtMs > now + ExpiryMarginMs

\* getCachedAccessToken()
getCachedAccessToken == IF CacheValid THEN cachedAccessToken ELSE Null

\* useCache && !forceRefresh && cachedAccessToken && cachedExpiresAtMs > now + 5000
CacheHitUntilExpiry(useCache, forceRefresh) ==
  useCache /\ ~forceRefresh /\ cachedAccessToken > 0 /\ cachedExpiresAtMs > now
CacheHit(useCache, forceRefresh) ==
  useCache /\ ~forceRefresh /\ cachedAccessToken > 0
    /\ cachedExpiresAtMs > now + ExpiryMarginMs

\* expiresIn ? now + expiresIn * 1000 : now + 60 * 60 * 1000
ExpiresAt(at, expiresIn) ==
  IF expiresIn # Null /\ expiresIn # 0
    THEN at + expiresIn * 1000
    ELSE at + DefaultTtlMs

\* inFlightTokenPromise && !forceRefresh
NeverJoinInFlight(forceRefresh) == FALSE
ShouldJoinInFlight(forceRefresh) == inFlightTokenPromise # 0 /\ ~forceRefresh

\* a call as the log keeps it: how it was served ("explicit", "cache", "join",
\* "new", "nosdk"), the resolution it awaits (0: none), the value returned at
\* once (Null: none), the non-empty string it passed as token (Null: none)
\* and whether it passed no token and default options
CallRecord(maybeToken, missingContext, useCache, forceRefresh, how, p, val) ==
  [missing |-> missingContext, how |-> how, p |-> p, val |-> val,
   given |-> IF maybeToken > 0 THEN maybeToken ELSE Null,
   dflt |-> (~IsExplicitToken(maybeToken) /\ useCache /\ ~forceRefresh)]

\* resolveAccessToken(maybeToken, missingContext, {useCache, forceRefresh}):
\* the function runs to its return without suspending
resolveAccessToken(maybeToken, missingContext, useCache, forceRefresh) ==
  /\ Len(tCalls) < MaxCalls
  /\ IF IsExplicitToken(maybeToken)
       THEN /\ tCalls' = Append(tCalls, CallRecord(maybeToken, missingContext, useCache,
                                  forceRefresh, "explicit", 0, maybeToken))
            /\ UNCHANGED <<inFlightTokenPromise, tPromises>>
     ELSE IF CacheHit(useCache, forceRefresh)
       THEN /\ tCalls' = Append(tCalls, CallRecord(maybeToken, missingContext, useCache,
                                  forceRefresh, "cache", 0, cachedAccessToken))
            /\ UNCHANGED <<inFlightTokenPromise, tPromises>>
     ELSE IF ShouldJoinInFlight(forceRefresh)
       THEN /\ tCalls' = Append(tCalls, CallRecord(maybeToken, missingContext, useCache,
                                  forceRefresh, "join", inFlightTokenPromise, Null))
            /\ UNCHANGED <<inFlightTokenPromise, tPromises>>
     ELSE IF sdkLoaded
       THEN /\ tPromises' = Append(tPromises,
                                   [inner |-> "pending", value |-> Null,
                                    missing |-> missingContext, now |-> now,
                                    cleaned |-> FALSE])
            /\ inFlightTokenPromise' = Len(tPromises) + 1
            /\ tCalls' = Append(tCalls, CallRecord(maybeToken, missingContext, useCache,
                                  forceRefresh, "new", Len(tPromises) + 1, Null))
     ELSE \* throw new FacebookSDKError(..., 'NO_TOKEN')
          /\ tCalls' = Append(tCalls, CallRecord(maybeToken, missingContext, useCache,
                                  forceRefresh, "nosdk", 0, Null))
          /\ UNCHANGED <<inFlightTokenPromise, tPromises>>
  /\ UNCHANGED <<cachedAccessToken, cachedExpiresAtMs, now, sdkLoaded, tDisturbed,
                 tClearedAt>>

Resolve ==
  /\ \E o \in ResolveOptions :
       resolveAccessToken(o[1], MissingContextOf(Len(tCalls) + 1), o[2], o[3])
  /\ UNCHANGED exceptToken

\* FB.getLoginStatus calls back with a connected session
LoginStatusConnected ==
  /\ \E p \in 1..Len(tPromises), expiresInSec \in ExpiresInChoices :
         /\ tPromises[p].inner = "pending"
         /\ cachedAccessToken' = SourceToken(p)
         /\ cachedExpiresAtMs' = ExpiresAt(tPromises[p].now, expiresInSec)
         /\ tPromises' = [tPromises EXCEPT ![p].inner = "resolved",
                                           ![p].value = SourceToken(p)]
         /\ tClearedAt' = IF p > tClearedAt THEN Null ELSE tClearedAt
         /\ UNCHANGED <<inFlightTokenPromise, now, sdkLoaded, tCalls, tDisturbed>>
  /\ UNCHANGED exceptToken

\* new FacebookPermissionError('User not logged in. ...', missingContext,
\* 'NOT_LOGGED_IN'): the error resolution p rejects with, built in the closure
\* of the call that started p
RejectionOf(p) ==
  [MkError("FacebookPermissionError", "NOT_LOGGED_IN", Null, Null, "other")
     EXCEPT !.missingPermissions = tPromises[p].missing]

\* FB.getLoginStatus calls back without a connected session:
\* reject(new FacebookPermissionError(.., missingContext, 'NOT_LOGGED_IN'))
LoginStatusNotConnected ==
  /\ \E p \in 1..Len(tPromises) :
         /\ tPromises[p].inner = "pending"
         /\ tPromises' = [tPromises EXCEPT ![p].inner = "rejected"]
         /\ UNCHANGED <<cachedAccessToken, cachedExpiresAtMs, inFlightTokenPromise, now,
                        sdkLoaded, tCalls, tDisturbed, tClearedAt>>
  /\ UNCHANGED exceptToken

\* .finally(() => { inFlightTokenPromise = null; }), after which the promise
\* handed to the callers settles
FinallySkipsCleanup ==
  /\ \E p \in 1..Len(tPromises) :
         /\ tPromises[p].inner # "pending"
         /\ ~tPromises[p].cleaned
         /\ tPromises' = [tPromises EXCEPT ![p].cleaned = TRUE]
         /\ tDisturbed' = TRUE
         /\ UNCHANGED <<cachedAccessToken, cachedExpiresAtMs, inFlightTokenPromise, now,
                        sdkLoaded, tCalls, tClearedAt>>
  /\ UNCHANGED exceptToken
FinallyCleanup ==
  /\ \E p \in 1..Len(tPromises) :
         /\ tPromises[p].inner # "pending"
         /\ ~tPromises[p].cleaned
         /\ inFlightTokenPromise' = 0
         /\ tPromises' = [tPromises EXCEPT ![p].cleaned = TRUE]
         /\ tDisturbed' = TRUE
         /\ UNCHANGED <<cachedAccessToken, cachedExpiresAtMs, now, sdkLoaded, tCalls,
                        tClearedAt>>
  /\ UNCHANGED exceptToken

\* setAccessToken(token, expiresInSeconds)
setAccessTokenWith(token, expiresInSeconds) ==
  /\ cachedAccessToken' = IF token >= 0 THEN token ELSE Null
  /\ cachedExpiresAtMs' = IF cachedAccessToken' > 0
                            THEN ExpiresAt(now, expiresInSeconds)
                            ELSE 0
  /\ tDisturbed' = TRUE
  /\ tClearedAt' = Null
  /\ UNCHANGED <<inFlightTokenPromise, now, sdkLoaded, tPromises, tCalls>>

\* the expiry is read only when the token is cached with one, so one
\* expiresInSeconds stands for all when it is not
setAccessToken ==
  /\ \E token \in SetTokens :
       \E expiresInSeconds \in IF token > 0 THEN ExpiresInChoices ELSE {Null} :
         setAccessTokenWith(token, expiresInSeconds)
  /\ UNCHANGED exceptToken

\* clearAccessToken()
clearAccessTokenKeepsMarker ==
  /\ cachedAccessToken' = Null
  /\ cachedExpiresAtMs' = 0
  /\ tDisturbed' = TRUE
  /\ tClearedAt' = Len(tPromises)
  /\ UNCHANGED <<inFlightTokenPromise, now, sdkLoaded, tPromises, tCalls>>
  /\ UNCHANGED exceptToken
clearAccessToken ==
  /\ cachedAccessToken' = Null
  /\ cachedExpiresAtMs' = 0
  /\ inFlightTokenPromise' = 0
  /\ tDisturbed' = TRUE
  /\ tClearedAt' = Len(tPromises)
  /\ UNCHANGED <<now, sdkLoaded, tPromises, tCalls>>
  /\ UNCHANGED exceptToken

\* time passes
Tick ==
  /\ now < MaxTicks * TickMs
  /\ now' = now + TickMs
  /\ UNCHANGED <<cachedAccessToken, cachedExpiresAtMs, inFlightTokenPromise,
                 sdkLoaded, tPromises, tCalls, tDisturbed, tClearedAt>>
  /\ UNCHANGED exceptToken

\* the Facebook SDK script finishes loading: FB becomes defined
SdkLoads ==
  /\ ~sdkLoaded
  /\ sdkLoaded' = TRUE
  /\ UNCHANGED <<cachedAccessToken, cachedExpiresAtMs, inFlightTokenPromise, now,
                 tPromises, tCalls, tDisturbed, tClearedAt>>
  /\ UNCHANGED exceptToken

TokenInit ==
  /\ cachedAccessToken = Null
  /\ cachedExpiresAtMs = 0
  /\ inFlightTokenPromise = 0
  /\ now = 0
  /\ sdkLoaded = FALSE
  /\ tPromises = <<>>
  /\ tCalls = <<>>
  /\ tDisturbed = FALSE
  /\ tClearedAt = Null

TokenNext ==
  \/ Resolve
  \/ LoginStatusConnected
  \/ LoginStatusNotConnected
  \/ FinallyCleanup
  \/ setAccessToken
  \/ clearAccessToken
  \/ Tick
  \/ SdkLoads

(***************************************************************************)
(* leads.js: getAllLeads                                                   *)
(***************************************************************************)

\* largest small maxLeads a call is given
MaxLeadsSmall == 3
\* getLeads calls a run of getAllLeads is followed for
MaxFetches == 3

\* Math.min(100, ...): Facebook max is 100
PageCap == 100

\* options.maxLeads: small values, one between, and one above the page cap
MaxLeadsChoices == (1..MaxLeadsSmall) \cup {30, PageCap + 1}
\* options.after: undefined or a cursor
AfterChoices == {0, 9}
\* paging of a response: <<paging.next present, paging.cursors.after (0: absent)>>
PagingChoices == {<<FALSE, 0>>, <<TRUE, 0>>, <<FALSE, 1>>, <<TRUE, 1>>, <<TRUE, 2>>}
\* response.data.length for a request of `limit` items: nothing (or no data
\* field), one item, a provider page of 25 items at most, a full page, more
\* than was asked for
PageSizes(limit) == {0, 1, IF limit < 25 THEN limit ELSE 25, limit, limit + 1}

Min(a, b) == IF a < b THEN a ELSE b

\* limit: Math.min(100, maxLeads - fetchedCount)
PageLimitCapOnly(max, fetched) == PageCap
PageLimitNoCap(max, fetched) == max - fetched
PageLimit(max, fetched) == Min(PageCap, max - fetched)

\* the errors getLeads throws: what graphAPI threw, passed through
\* handleError(error, "getLeads", { formId, options })
GetLeadsErrors ==
  {handleError(createFacebookError(190, 401), "getLeads", Null, Null),
   handleError(handleError(createFacebookError(NoBody, 500), "graphAPI", 1, Null),
               "getLeads", Null, Null)}

\* a getLeads call as the log keeps it: the limit and cursor requested, and of
\* its response the number of items, paging.next, paging.cursors.after and the
\* items collected once it is taken in; n = Null while it is pending
FetchRecord(limit, cursor) ==
  [limit |-> limit, after |-> cursor, n |-> Null, next |-> FALSE, cursor |-> 0,
   total |-> Null]

\* allLeads.push(...response.data)
PushDataFront(acc, data) == data \o acc
PushData(acc, data) == acc \o data

\* getAllLeads(formId, accessToken, options) up to the first await getLeads(...)
getAllLeads ==
  /\ lPc = "idle"
  /\ \E m \in MaxLeadsChoices, a \in AfterChoices :
       /\ maxLeads' = m
       /\ after' = a
       /\ optionsAfter' = a
       /\ lFetches' = <<FetchRecord(PageLimit(m, 0), a)>>
  /\ allLeads' = <<>>
  /\ hasNextPage' = TRUE
  /\ fetchedCount' = 0
  /\ lPc' = "fetching"
  /\ UNCHANGED lError
  /\ UNCHANGED exceptLeads

\* response.paging && response.paging.next && response.paging.cursors?.after
\*   && fetchedCount < maxLeads
HasFurtherPage(next, cursor, fetched) == next /\ cursor # 0 /\ fetched < maxLeads

\* getLeads returns a page of n items: the loop body after the await, the
\* loop test, and the next getLeads call or the return
PageArrives ==
  /\ lPc = "fetching"
  /\ \E n \in PageSizes(lFetches[Len(lFetches)].limit), paging \in PagingChoices :
       LET k == Len(lFetches)
           fetched == fetchedCount + n
           more == HasFurtherPage(paging[1], paging[2], fetched)
           answered == [lFetches EXCEPT ![k].n = n, ![k].next = paging[1],
                                        ![k].cursor = paging[2], ![k].total = fetched]
           nextAfter == IF more THEN paging[2] ELSE after
       IN
       /\ (more /\ fetched < maxLeads) => k < MaxFetches
       /\ allLeads' = IF n > 0
                         THEN PushData(allLeads, [j \in 1..n |-> <<k, j>>])
                         ELSE allLeads
       /\ fetchedCount' = fetched
       /\ after' = nextAfter
       /\ hasNextPage' = more
       /\ IF more /\ fetched < maxLeads
            THEN /\ lFetches' = Append(answered,
                                       FetchRecord(PageLimit(maxLeads, fetched), nextAfter))
                 /\ lPc' = "fetching"
            ELSE /\ lFetches' = answered
                 /\ lPc' = "returned"
  /\ UNCHANGED <<maxLeads, optionsAfter, lError>>
  /\ UNCHANGED exceptLeads

\* getLeads throws: throw handleError(error, "getAllLeads", { formId, options })
GetLeadsThrows ==
  /\ lPc = "fetching"
  /\ \E e \in GetLeadsErrors : lError' = handleError(e, "getAllLeads", Null, Null)
  /\ lPc' = "thrown"
  /\ UNCHANGED <<maxLeads, allLeads, hasNextPage, after, optionsAfter, fetchedCount,
                 lFetches>>
  /\ UNCHANGED exceptLeads

LeadsInit ==
  /\ lPc = "idle"
  /\ maxLeads = 1
  /\ allLeads = <<>>
  /\ hasNextPage = TRUE
  /\ after = 0
  /\ optionsAfter = 0
  /\ fetchedCount = 0
  /\ lFetches = <<>>
  /\ lError = NoError

LeadsNext ==
  \/ getAllLeads
  \/ PageArrives
  \/ GetLeadsThrows

(***************************************************************************)
(* graph.js: batchGraphAPI                                                 *)
(***************************************************************************)

\* largest requests.length a call is given
MaxRequests == 120

\* const batchSize = 50
batchSize == 50

\* requests.slice(i, i + batchSize)
BatchSliceOffByOne(i, n) == [k \in 1..(Min(i + batchSize + 1, n) - i) |-> i + k]
BatchSlice(i, n) == [k \in 1..(Min(i + batchSize, n) - i) |-> i + k]

\* the response to sub-request r
ResponseTo(r) == r

\* results.push(...response)
PushFront(acc, response) == response \o acc
Push(acc, response) == acc \o response

\* the errors a group's graphAPI call throws
GroupErrors ==
  {createFacebookError(190, 400),
   timeoutError,
   handleError(createFacebookError(NoBody, 500), "graphAPI", 1, Null)}

\* !Array.isArray(requests) || requests.length === 0
AnyRequestsAccepted(n) == FALSE
IsEmptyOrNoArray(n) == n = Null \/ n = 0

\* batchGraphAPI(requests, accessToken, options) up to the first await graphAPI(...)
batchGraphAPI ==
  /\ bPc = "idle"
  /\ \E n \in {Null} \cup (0..MaxRequests) :
       /\ requests' = n
       /\ IF IsEmptyOrNoArray(n)
            THEN \* throw new Error('Requests must be a non-empty array')
                 /\ bPc' = "thrown"
                 /\ bError' = MkError("Error", "", Null, Null, "other")
                 /\ bGroups' = <<>>
            ELSE /\ bPc' = "calling"
                 /\ bError' = bError
                 /\ bGroups' = <<BatchSlice(0, n)>>
  /\ bI' = 0
  /\ results' = <<>>
  /\ bCause' = bCause
  /\ UNCHANGED exceptBatch

\* the group's call returns one response per sub-request:
\* results.push(...response), i += batchSize, next group or return
GroupSucceeds ==
  /\ bPc = "calling"
  /\ results' = Push(results, [k \in 1..Len(bGroups[Len(bGroups)]) |->
                                  ResponseTo(bGroups[Len(bGroups)][k])])
  /\ bI' = bI + batchSize
  /\ IF bI' < requests
       THEN /\ bGroups' = Append(bGroups, BatchSlice(bI', requests))
            /\ bPc' = "calling"
       ELSE /\ bGroups' = bGroups
            /\ bPc' = "returned"
  /\ UNCHANGED <<requests, bCause, bError>>
  /\ UNCHANGED exceptBatch

\* the group's call throws:
\* throw handleError(error, 'batchGraphAPI', { batchSize: batch.length })
GroupFails ==
  /\ bPc = "calling"
  /\ \E e \in GroupErrors :
       /\ bCause' = e
       /\ bError' = handleError(e, "batchGraphAPI", Null, Len(bGroups[Len(bGroups)]))
  /\ bPc' = "thrown"
  /\ UNCHANGED <<requests, bI, results, bGroups>>
  /\ UNCHANGED exceptBatch

BatchInit ==
  /\ bPc = "idle"
  /\ requests = 0
  /\ bI = 0
  /\ results = <<>>
  /\ bGroups = <<>>
  /\ bCause = NoError
  /\ bError = NoError

BatchNext ==
  \/ batchGraphAPI
  \/ GroupSucceeds
  \/ GroupFails

(***************************************************************************)
(* leads.js / forms.js: getLeadsFromMultipleForms and                      *)
(* getLeadFormsFromMultiplePages                                           *)
(***************************************************************************)
MaxIds == 3

\* form or page identifiers, and the arrays of them a caller passes
IdChoices == {"id1", "id2"}
IdArrays == UNION {[1..n -> IdChoices] : n \in 0..MaxIds}

\* the bodies a fetch returns, and the errors getLeads / getLeadForms throws
FetchBodies == {[data |-> "r1"], [data |-> "r2"]}
FetchErrors == {createFacebookError(190, 400), timeoutError}

MultiFunctions == {"getLeadsFromMultipleForms", "getLeadFormsFromMultiplePages"}
FetchOf(fn) == IF fn = "getLeadsFromMultipleForms" THEN "getLeads" ELSE "getLeadForms"

\* a fetch that has not settled yet
NoResponse == [pending |-> TRUE]
NoResults == [k \in {} |-> NoResponse]

\* !Array.isArray(ids) || ids.length === 0
IsNoIdArray(isArray, ids) == ~isArray \/ Len(ids) = 0

\* success ? leads : { error }
EntryHidesError(r) == IF r.success THEN r.leads ELSE [error |-> ""]
Entry(r) == IF r.success THEN r.leads ELSE [error |-> r.error]

\* results[formId] = ...
AssignUnlessPresent(res, r) ==
  [k \in DOMAIN res \cup {r.formId} |-> IF k \in DOMAIN res THEN res[k] ELSE Entry(r)]
Assign(res, r) ==
  [k \in DOMAIN res \cup {r.formId} |-> IF k = r.formId THEN Entry(r) ELSE res[k]]

\* responses.forEach(({ formId, leads, error, success }) => { ... })
RECURSIVE forEach(_, _)
forEach(res, responses) ==
  IF responses = <<>>
    THEN res
    ELSE forEach(Assign(res, Head(responses)), Tail(responses))

\* the input positions whose fetch may settle next: any unsettled one when the
\* fetches run concurrently, the first unsettled one when they run in sequence
MaySettle ==
  IF parallel
    THEN {i \in 1..Len(mIds) : mResponses[i] = NoResponse}
    ELSE {i \in 1..Len(mIds) : i = Len(mOrder) + 1}

\* the call up to its first await
CallMulti(fn, isArray, ids, par) ==
  /\ mFn' = fn
  /\ mIsArray' = isArray
  /\ mIds' = ids
  /\ parallel' = par
  /\ mOrder' = <<>>
  /\ mResults' = NoResults
  /\ IF IsNoIdArray(isArray, ids)
       THEN \* throw new TypeError / Error('... must be a non-empty array')
            /\ mPc' = "thrown"
            /\ mResponses' = <<>>
            /\ mError' = handleError(
                  MkError(IF fn = "getLeadsFromMultipleForms" THEN "TypeError" ELSE "Error",
                          "", Null, Null, "other"),
                  fn, Null, Null)
       ELSE /\ mPc' = "awaiting"
            /\ mResponses' = [i \in 1..Len(ids) |-> NoResponse]
            /\ mError' = mError
  /\ UNCHANGED exceptMulti

\* getLeadsFromMultipleForms(formIds, accessToken, options)
getLeadsFromMultipleForms ==
  /\ mPc = "idle"
  /\ \E isArray \in BOOLEAN, par \in BOOLEAN :
       \E ids \in IF isArray THEN IdArrays ELSE {<<>>} :
         CallMulti("getLeadsFromMultipleForms", isArray, ids, par)

\* getLeadFormsFromMultiplePages(pageIds, accessToken, options)
getLeadFormsFromMultiplePages ==
  /\ mPc = "idle"
  /\ \E isArray \in BOOLEAN :
       \E ids \in IF isArray THEN IdArrays ELSE {<<>>} :
         CallMulti("getLeadFormsFromMultiplePages", isArray, ids, TRUE)

\* one identifier's fetch settled with response r
Settle(i, r) ==
  /\ mResponses' = [mResponses EXCEPT ![i] = r]
  /\ mOrder' = Append(mOrder, i)
  /\ mResults' = IF parallel THEN mResults ELSE Assign(mResults, r)
  /\ UNCHANGED <<mPc, mFn, mIsArray, mIds, parallel, mError>>
  /\ UNCHANGED exceptMulti

\* await getLeads(...) / getLeadForms(...) returns:
\* return { formId, leads, success: true }
FetchSucceeds ==
  /\ mPc = "awaiting"
  /\ \E i \in MaySettle, body \in FetchBodies :
       Settle(i, [formId |-> mIds[i], leads |-> body, success |-> TRUE])

\* await getLeads(...) / getLeadForms(...) throws:
\* return { formId, error: error.message, success: false }
FetchFails ==
  /\ mPc = "awaiting"
  /\ \E i \in MaySettle, e \in FetchErrors :
       Settle(i, [formId |-> mIds[i],
                  error |-> handleError(e, FetchOf(mFn), Null, Null).msg,
                  success |-> FALSE])

\* Promise.all(promises) resolves (or the for loop ends), the responses are
\* filed under their identifiers and results is returned
ReturnResults ==
  /\ mPc = "awaiting"
  /\ Len(mOrder) = Len(mIds)
  /\ mResults' = IF parallel THEN forEach(mResults, mResponses) ELSE mResults
  /\ mPc' = "returned"
  /\ UNCHANGED <<mFn, mIsArray, mIds, parallel, mResponses, mOrder, mError>>
  /\ UNCHANGED exceptMulti

MultiInit ==
  /\ mPc = "idle"
  /\ mFn = "getLeadsFromMultipleForms"
  /\ mIsArray = TRUE
  /\ mIds = <<>>
  /\ parallel = TRUE
  /\ mResponses = <<>>
  /\ mOrder = <<>>
  /\ mResults = NoResults
  /\ mError = NoError

MultiNext ==
  \/ getLeadsFromMultipleForms
  \/ getLeadFormsFromMultiplePages
  \/ FetchSucceeds
  \/ FetchFails
  \/ ReturnResults

(***************************************************************************)
(* config.js: the global configuration; graph.js: the settings of a call   *)
(***************************************************************************)
MaxConfigCalls == 2

\* the settings graphAPI reads
ConfigFields == {"version", "timeout", "retryAttempts", "retryDelay"}

DEFAULT_CONFIG ==
  [version |-> "v23.0", timeout |-> 10000, retryAttempts |-> 3, retryDelay |-> 1000]

\* the updates passed to setConfig
NewConfigs ==
  {[timeout |-> 20000],
   [version |-> "v22.0", retryAttempts |-> 5]}

\* the options argument of graphAPI: none, one override, several, all four
OptionChoices ==
  {[k \in {} |-> 0],
   [timeout |-> 5],
   [retryAttempts |-> 0, retryDelay |-> 1],
   [version |-> "v19.0", timeout |-> 5, retryAttempts |-> 0, retryDelay |-> 1]}

\* { ...globalConfig, ...newConfig }
Spread(base, over) ==
  [f \in DOMAIN base \cup DOMAIN over |-> IF f \in DOMAIN over THEN over[f] ELSE base[f]]

\* getConfig(): a copy of globalConfig
getConfig == globalConfig

\* const { version = config.version, timeout = config.timeout,
\*         retryAttempts = config.retryAttempts, retryDelay = config.retryDelay } = options
DestructureIgnoresOptions(options, config) == [f \in ConfigFields |-> config[f]]
Destructure(options, config) ==
  [f \in ConfigFields |-> IF f \in DOMAIN options THEN options[f] ELSE config[f]]

\* setConfig(newConfig)
setConfig ==
  /\ \E newConfig \in NewConfigs : globalConfig' = Spread(globalConfig, newConfig)
  /\ UNCHANGED kCalls
  /\ UNCHANGED exceptConfig

\* resetConfig()
resetConfig ==
  /\ globalConfig' = DEFAULT_CONFIG
  /\ UNCHANGED kCalls
  /\ UNCHANGED exceptConfig

\* graphAPI(endpoint, accessToken, method, params, options) reads the
\* configuration and fixes the settings it runs with
GraphCallStarts ==
  /\ Len(kCalls) < MaxConfigCalls
  /\ \E options \in OptionChoices :
       kCalls' = Append(kCalls, [options |-> options,
                                 settings |-> Destructure(options, getConfig),
                                 ended |-> FALSE])
  /\ UNCHANGED globalConfig
  /\ UNCHANGED exceptConfig

\* a graphAPI call returns or throws
GraphCallEnds ==
  /\ \E i \in 1..Len(kCalls) :
       /\ ~kCalls[i].ended
       /\ kCalls' = [kCalls EXCEPT ![i].ended = TRUE]
  /\ UNCHANGED globalConfig
  /\ UNCHANGED exceptConfig

ConfigInit ==
  /\ globalConfig = DEFAULT_CONFIG
  /\ kCalls = <<>>

ConfigNext ==
  \/ setConfig
  \/ resetConfig
  \/ GraphCallStarts
  \/ GraphCallEnds

(***************************************************************************)
(* graph.js: graphAPI calls running side by side                           *)
(***************************************************************************)
MaxConcurrent == 2

GraphCalls == 1..MaxConcurrent

\* const controller = new AbortController(): the controller call c creates,
\* named after the call
OneControllerForAll(c) == CHOOSE k \in GraphCalls : TRUE
ControllerOf(c) == c

\* the catch block of call c after a failed attempt: sleep and retry while
\* attempts remain, throw otherwise; timeoutId is cleared first
RetryOrThrow(c) ==
  /\ pTimerArmed' = [pTimerArmed EXCEPT ![c] = FALSE]
  /\ pPc' = [pPc EXCEPT ![c] = IF pAttempt[c] < pRetry[c] THEN "sleeping" ELSE "thrown"]

\* call c of graphAPI up to its first await fetch(...)
ConcurrentCall ==
  /\ \E c \in GraphCalls, r \in 0..MaxRetry :
       /\ pPc[c] = "idle"
       /\ pPc' = [pPc EXCEPT ![c] = "awaiting"]
       /\ pRetry' = [pRetry EXCEPT ![c] = r]
       /\ pTimerArmed' = [pTimerArmed EXCEPT ![c] = TRUE]
       /\ pAborted' = [pAborted EXCEPT ![ControllerOf(c)] = FALSE]
  /\ UNCHANGED <<pAttempt, pTimerFired, pAbortSeen>>
  /\ UNCHANGED exceptPair

\* the timeout callback of call c runs: controller.abort()
ConcurrentTimerFires ==
  /\ \E c \in GraphCalls :
       /\ pTimerArmed[c]
       /\ pTimerArmed' = [pTimerArmed EXCEPT ![c] = FALSE]
       /\ pTimerFired' = [pTimerFired EXCEPT ![c] = TRUE]
       /\ pAborted' = [pAborted EXCEPT ![ControllerOf(c)] = TRUE]
  /\ UNCHANGED <<pPc, pRetry, pAttempt, pAbortSeen>>
  /\ UNCHANGED exceptPair

\* the fetch of call c, given a signal that is aborted, rejects with AbortError
ConcurrentAbortRejects ==
  /\ \E c \in GraphCalls :
       /\ pPc[c] = "awaiting"
       /\ pAborted[ControllerOf(c)]
       /\ pAbortSeen' = [pAbortSeen EXCEPT ![c] = TRUE]
       /\ RetryOrThrow(c)
  /\ UNCHANGED <<pRetry, pAttempt, pTimerFired, pAborted>>
  /\ UNCHANGED exceptPair

\* the provider answers the pending request of call c: a payload, or a
\* failure that is retried while attempts remain
ConcurrentResponds ==
  /\ \E c \in GraphCalls, ok \in BOOLEAN :
       /\ pPc[c] = "awaiting"
       /\ ~pAborted[ControllerOf(c)]
       /\ IF ok
            THEN /\ pPc' = [pPc EXCEPT ![c] = "returned"]
                 /\ pTimerArmed' = [pTimerArmed EXCEPT ![c] = FALSE]
            ELSE RetryOrThrow(c)
  /\ UNCHANGED <<pRetry, pAttempt, pTimerFired, pAborted, pAbortSeen>>
  /\ UNCHANGED exceptPair

\* the backoff sleep of call c ends: attempt++, fetch with the same signal
ConcurrentSleepDone ==
  /\ \E c \in GraphCalls :
       /\ pPc[c] = "sleeping"
       /\ pPc' = [pPc EXCEPT ![c] = "awaiting"]
       /\ pAttempt' = [pAttempt EXCEPT ![c] = pAttempt[c] + 1]
  /\ UNCHANGED <<pRetry, pTimerArmed, pTimerFired, pAborted, pAbortSeen>>
  /\ UNCHANGED exceptPair

PairInit ==
  /\ pPc = [c \in GraphCalls |-> "idle"]
  /\ pRetry = [c \in GraphCalls |-> 0]
  /\ pAttempt = [c \in GraphCalls |-> 0]
  /\ pTimerArmed = [c \in GraphCalls |-> FALSE]
  /\ pTimerFired = [c \in GraphCalls |-> FALSE]
  /\ pAborted = [c \in GraphCalls |-> FALSE]
  /\ pAbortSeen = [c \in GraphCalls |-> FALSE]

PairNext ==
  \/ ConcurrentCall
  \/ ConcurrentTimerFires
  \/ ConcurrentAbortRejects
  \/ ConcurrentResponds
  \/ ConcurrentSleepDone

(***************************************************************************)
(* pages.js: getManagedPage and managesPage                                *)
(***************************************************************************)
MaxPages == 2

PageIds == {"p1", "p2", "p3"}

\* what getPages settles with.  A response is the JSON body of me/accounts:
\* null, or an object whose data member is absent, no array, or an array of
\* pages given by their ids; an error is what getPages' catch block throws
PagesResponse(body, data, pages) ==
  [kind |-> "response", body |-> body, data |-> data, pages |-> pages, error |-> NoError]
PagesError(error) ==
  [kind |-> "error", body |-> "", data |-> "", pages |-> <<>>,
   error |-> handleError(error, "getPages", Null, Null)]

PagesOutcomes ==
  {PagesResponse("null", "", <<>>), PagesResponse("object", "absent", <<>>),
   PagesResponse("object", "noarray", <<>>)}
    \cup {PagesResponse("object", "array", pages) :
            pages \in UNION {[1..n -> PageIds] : n \in 0..MaxPages}}
    \cup {PagesError(e) :
            e \in {MkError("FacebookPermissionError", "NOT_LOGGED_IN", Null, Null, "other"),
                   MkError("FacebookSDKError", "NO_TOKEN", Null, Null, "other"),
                   createFacebookError(190, 401),
                   createFacebookError(NoBody, 500),
                   timeoutError,
                   FetchTypeError}}

\* pagesResponse.data.find((p) => p.id === pageId)
findFirstOnly(pages, pageId) == Len(pages) > 0 /\ pages[1] = pageId
find(pages, pageId) == \E i \in 1..Len(pages) : pages[i] = pageId

\* getManagedPage(pageId, accessToken, options), once getPages has settled with o
getManagedPage(pageId, o) ==
  IF o.kind = "error"
    THEN "throw"          \* await getPages(...) throws, caught and rethrown
  ELSE IF o.body = "null"
    THEN "throw"          \* pagesResponse.data: TypeError
  ELSE IF o.data = "absent"
    THEN "null"           \* if (!pagesResponse.data) return null
  ELSE IF o.data = "noarray"
    THEN "throw"          \* pagesResponse.data.find is not a function
  ELSE IF find(o.pages, pageId)
    THEN "page"
  ELSE "null"             \* page || null

\* managesPage(pageId, accessToken) calls getManagedPage, which calls getPages
managesPage ==
  /\ qPc = "idle"
  /\ \E pageId \in PageIds : qPageId' = pageId
  /\ qPc' = "getPages"
  /\ UNCHANGED <<qPages, qPage, qResult>>
  /\ UNCHANGED exceptPage

\* getPages returns the response or throws
GetPagesSettles ==
  /\ qPc = "getPages"
  /\ \E o \in PagesOutcomes : qPages' = o
  /\ qPc' = "getManagedPage"
  /\ UNCHANGED <<qPageId, qPage, qResult>>
  /\ UNCHANGED exceptPage

\* getManagedPage returns the page or null, or throws
GetManagedPageSettles ==
  /\ qPc = "getManagedPage"
  /\ qPage' = getManagedPage(qPageId, qPages)
  /\ qPc' = "managesPage"
  /\ UNCHANGED <<qPageId, qPages, qResult>>
  /\ UNCHANGED exceptPage

\* return page !== null; catch (error) { return false; }
managesPageRethrows(page) ==
  IF page = "throw" THEN "thrown" ELSE IF page # "null" THEN "true" ELSE "false"
managesPageResult(page) ==
  IF page = "throw" THEN "false" ELSE IF page # "null" THEN "true" ELSE "false"

\* managesPage settles
ManagesPageReturns ==
  /\ qPc = "managesPage"
  /\ qResult' = managesPageResult(qPage)
  /\ qPc' = IF qResult' = "thrown" THEN "thrown" ELSE "returned"
  /\ UNCHANGED <<qPageId, qPages, qPage>>
  /\ UNCHANGED exceptPage

PageInit ==
  /\ qPc = "idle"
  /\ qPageId = "p1"
  /\ qPages = PagesResponse("null", "", <<>>)
  /\ qPage = "null"
  /\ qResult = "none"

PageNext ==
  \/ managesPage
  \/ GetPagesSettles
  \/ GetManagedPageSettles
  \/ ManagesPageReturns

(***************************************************************************)
(* the resource helpers documented with an optional token                  *)
(***************************************************************************)
Helpers ==
  {"getProfile", "getPages", "getPagePosts", "getPostDetails", "getComments", "getLikes",
   "getLeadForms", "getLeadFormDetails", "getLeadFormStats", "getLeads", "getAllLeads",
   "getLeadStats"}

\* the accessToken argument: left out, or a token
NoTokenArg == "<undefined>"
GivenTokens == {NoTokenArg, "EAAB"}

\* status.authResponse.accessToken of a connected session
SdkToken == "EAAS"

\* the token each graphAPI call of a helper is handed, in call order:
\* "resolved" stands for `await resolveAccessToken(accessToken)`, "raw" for
\* the accessToken argument as it came in
TokenArgs(helper) ==
  CASE helper = "getPagePosts" -> <<"raw">>
    [] helper = "getLeadFormStats" -> <<"raw">>
    [] helper = "getLeadStats" -> <<"raw", "resolved">>
    [] helper = "getAllLeads" -> <<"resolved", "resolved">>
    [] OTHER -> <<"resolved">>

\* resolveAccessToken(maybeToken) with an empty cache: the token passed, else
\* the session's token, else a throw
Resolved(given, session) ==
  IF given # NoTokenArg THEN given
  ELSE IF session = "connected" THEN SdkToken
  ELSE "throw"

\* URLSearchParams writes a value that is undefined as the text undefined
OnTheWire(token) == IF token = NoTokenArg THEN "undefined" ELSE token

\* a helper is called
HelperCall ==
  /\ hPc = "idle"
  /\ \E helper \in Helpers, given \in GivenTokens,
        session \in {"connected", "unknown", "nosdk"} :
       /\ hHelper' = helper
       /\ hGiven' = given
       /\ hSession' = session
  /\ hStep' = 1
  /\ hPc' = "preparing"
  /\ UNCHANGED hCarried
  /\ UNCHANGED exceptHelper

\* the helper evaluates the arguments of its next graphAPI call and the
\* request goes out, or the token resolution throws
HelperRequests ==
  /\ hPc = "preparing"
  /\ LET token == IF TokenArgs(hHelper)[hStep] = "raw"
                    THEN hGiven
                    ELSE Resolved(hGiven, hSession)
     IN IF token = "throw"
          THEN hPc' = "thrown" /\ hCarried' = hCarried
          ELSE hPc' = "fetching" /\ hCarried' = Append(hCarried, OnTheWire(token))
  /\ UNCHANGED <<hHelper, hGiven, hSession, hStep>>
  /\ UNCHANGED exceptHelper

\* graphAPI returns: the helper makes its next call or returns
HelperGetsData ==
  /\ hPc = "fetching"
  /\ IF hStep < Len(TokenArgs(hHelper))
       THEN hStep' = hStep + 1 /\ hPc' = "preparing"
       ELSE hStep' = hStep /\ hPc' = "returned"
  /\ UNCHANGED <<hHelper, hGiven, hSession, hCarried>>
  /\ UNCHANGED exceptHelper

\* graphAPI throws: the helper's catch block rethrows
HelperFails ==
  /\ hPc = "fetching"
  /\ hPc' = "thrown"
  /\ UNCHANGED <<hHelper, hGiven, hSession, hStep, hCarried>>
  /\ UNCHANGED exceptHelper

HelperInit ==
  /\ hPc = "idle"
  /\ hHelper = "getProfile"
  /\ hGiven = NoTokenArg
  /\ hSession = "nosdk"
  /\ hStep = 1
  /\ hCarried = <<>>

HelperNext ==
  \/ HelperCall
  \/ HelperRequests
  \/ HelperGetsData
  \/ HelperFails

vars ==
  <<graphVars, tokenVars, leadsVars, batchVars, errorVars, multiVars, configVars, pairVars,
    pageVars, helperVars>>

Init ==
  /\ GraphInit /\ TokenInit /\ LeadsInit /\ BatchInit /\ ErrorInit /\ MultiInit
  /\ ConfigInit /\ PairInit /\ PageInit /\ HelperInit

GraphSpec == Init /\ [][GraphNext]_vars

TokenSpec == Init /\ [][TokenNext]_vars

LeadsSpec == Init /\ [][LeadsNext]_vars

BatchSpec == Init /\ [][BatchNext]_vars

ErrorSpec == Init /\ [][ErrorNext]_vars

MultiSpec == Init /\ [][MultiNext]_vars

ConfigSpec == Init /\ [][ConfigNext]_vars

PairSpec == Init /\ [][PairNext]_vars

PageSpec == Init /\ [][PageNext]_vars

HelperSpec == Init /\ [][HelperNext]_vars

\* timers fire and microtasks run; the provider is not obliged to answer
GraphFairSpec ==
  /\ Init
  /\ [][GraphNext]_vars
  /\ WF_vars(GraphCall)
  /\ WF_vars(TimerFires)
  /\ WF_vars(SleepDone)
  /\ WF_vars(AbortedFetchRejects)

(***************************************************************************)
(* createFacebookError: properties                                         *)
(***************************************************************************)

\* createFacebookError has been applied
Classified == eError # NoError

\* C19: an error body with code 190 yields FacebookAuthError and one with
\* code 10 FacebookPermissionError for every statusCode, null, 2xx, 4xx and
\* 5xx alike: the kind and code of the result do not depend on statusCode.
C19_KindIndependentOfStatus ==
  Classified
    => /\ eBody = 190
            => eError.name = "FacebookAuthError" /\ eError.code = "AUTH_TOKEN_INVALID"
       /\ eBody = 10
            => /\ eError.name = "FacebookPermissionError"
               /\ eError.code = "PERMISSION_DENIED"

\* C19 witness: code 190 arriving with HTTP 500 is classified FacebookAuthError
C19_Witness ==
  /\ eBody = 190
  /\ eStatus = 500
  /\ eError.name = "FacebookAuthError"

\* C20: createFacebookError returns, for every body and statusCode: with no
\* body a FacebookAPIError of code API_UNKNOWN carrying statusCode; for codes
\* 190, 102, 459 a FacebookAuthError; for codes 10, 200 a
\* FacebookPermissionError with empty missingPermissions; for codes 4, 613 a
\* FacebookAPIError of code API_RATE_LIMIT; for every other code a
\* FacebookAPIError carrying statusCode and the original body.
C20_ClassificationTable ==
  Classified
    => /\ eError.name \in {"FacebookAPIError", "FacebookAuthError",
                           "FacebookPermissionError"}
       /\ eBody = NoBody
            => /\ eError.name = "FacebookAPIError"
               /\ eError.code = "API_UNKNOWN"
               /\ eError.statusCode = eStatus
       /\ eBody \in {190, 102, 459} => eError.name = "FacebookAuthError"
       /\ eBody \in {10, 200}
            => /\ eError.name = "FacebookPermissionError"
               /\ eError.missingPermissions = <<>>
       /\ eBody \in {4, 613}
            => eError.name = "FacebookAPIError" /\ eError.code = "API_RATE_LIMIT"
       /\ eBody \notin {NoBody, 190, 102, 459, 10, 200, 4, 613}
            => /\ eError.name = "FacebookAPIError"
               /\ eError.statusCode = eStatus
               /\ eError.fbCode = eBody

\* C20 witness: a code no table names, arriving with HTTP 503, comes back as a
\* FacebookAPIError carrying the status and the body
C20_Witness ==
  /\ eBody = 803
  /\ eStatus = 503
  /\ eError.name = "FacebookAPIError"
  /\ eError.code = "API_ERROR"
  /\ eError.statusCode = 503
  /\ eError.fbCode = 803

(***************************************************************************)
(* graphAPI: properties                                                    *)
(***************************************************************************)

GraphDone == gPc \in {"returned", "thrown"}

\* the first n settled attempts were all answered with HTTP 500
First500(n) == \A i \in 1..n : gLog[i].status = 500

\* a 2xx answer carrying a JSON payload
IsSuccess(entry) == ResponseOk(entry.status) /\ entry.name = "ok"

\* D*2^0, D*2^1, ..., D*2^(k-1)
ExpectedDelays(k) == [i \in 1..k |-> retryDelay * Pow2(i - 1)]

StrictlyIncreasing(s) == \A i \in 1..(Len(s) - 1) : s[i] < s[i + 1]

\* C2: when the provider answers HTTP 500 on the first k attempts (k no more
\* than retryAttempts) and 2xx on the next, graphAPI returns the payload after
\* exactly k+1 HTTP calls and k sleeps of D*2^0, ..., D*2^(k-1), strictly
\* increasing; while only 500s have been seen and attempts remain it keeps
\* retrying with exactly those delays.
C2_RetryThenSuccess ==
  /\ \A k \in 0..retryAttempts :
       (Len(gLog) = k + 1 /\ First500(k) /\ IsSuccess(gLog[k + 1]))
         => /\ gPc = "returned"
            /\ gHttp = k + 1
            /\ gSleeps = ExpectedDelays(k)
            /\ StrictlyIncreasing(gSleeps)
  /\ \A k \in 1..retryAttempts :
       (Len(gLog) = k /\ First500(k))
         => /\ gPc \in {"sleeping", "awaiting"}
            /\ gSleeps = ExpectedDelays(k)
            /\ gHttp = IF gPc = "awaiting" THEN k + 1 ELSE k

\* C2 witness: two 500s, two sleeps, then a success on the third request
C2_Witness ==
  /\ gPc = "returned"
  /\ Len(gLog) = 3
  /\ First500(2)
  /\ gHttp = 3
  /\ Len(gSleeps) = 2
  /\ retryDelay = 2

\* C3: a response with a status in [400,500) other than 429 is the last thing
\* the call does: no sleep and no HTTP request follow it, whatever the kind of
\* the classified error.
C3_ClientErrorFailsImmediately ==
  \A i \in 1..Len(gLog) :
    IsClientError(gLog[i].status)
      => /\ i = Len(gLog)
         /\ gPc = "thrown"
         /\ gHttp = gLog[i].http
         /\ Len(gSleeps) = i - 1

\* C4: once a response is classified FacebookAuthError or
\* FacebookPermissionError the call issues no further HTTP request, for every
\* status of that response.
C4_NoRequestAfterAuthOrPermission ==
  \A i \in 1..Len(gLog) :
    IsNonRetryableName(gLog[i].name) => gHttp = gLog[i].http

\* C5: a first response of HTTP 401 or 403 classified Auth/Permission makes
\* the call fail on the first attempt: one HTTP call, no sleep, and that
\* error is thrown.
C5_AuthOn401Or403FailsFirstAttempt ==
  (/\ Len(gLog) >= 1
   /\ gLog[1].status \in {401, 403}
   /\ gLog[1].name \in {"FacebookAuthError", "FacebookPermissionError"})
    => /\ gPc = "thrown"
       /\ Len(gLog) = 1
       /\ gHttp = 1
       /\ gSleeps = <<>>
       /\ gResult.name = gLog[1].name

\* C5 witness: a 403 permission error thrown although retries were allowed
C5_Witness ==
  /\ gPc = "thrown"
  /\ retryAttempts = 2
  /\ Len(gLog) = 1
  /\ gLog[1].status = 403
  /\ gResult.name = "FacebookPermissionError"
  /\ gHttp = 1

\* C6: every graphAPI call eventually returns or throws, given that timers
\* fire, even when the provider never answers some attempt.
C6_EveryCallTerminates == <>GraphDone

\* C7: the attempt started after a timed-out attempt and its backoff sleep is
\* a fresh request: it is sent with a signal that is not already aborted, so
\* the provider can answer it.
C7_RetryAfterTimeoutIsFresh ==
  (/\ attempt > 0
   /\ Len(gLog) = attempt
   /\ gLog[attempt].name = "FacebookTimeoutError")
    => (gPc = "awaiting" /\ ~aborted)

\* C17: every HTTP request of a graphAPI call carries the credential passed
\* as accessToken: a GET request has it as access_token in the query string
\* together with all params, also when params is empty; a non-GET request has
\* it as the Authorization Bearer header, with the params as JSON body.
C17_EveryRequestCarriesCredential ==
  gHttp >= 1
    => IF toUpperCase(gArgs.method) = "GET"
         THEN /\ "access_token" \in DOMAIN gRequest.search
              /\ gRequest.search["access_token"] = gArgs.accessToken
              /\ \A k \in DOMAIN gArgs.params :
                   k \in DOMAIN gRequest.search /\ gRequest.search[k] = gArgs.params[k]
         ELSE /\ "Authorization" \in DOMAIN gRequest.headers
              /\ gRequest.headers["Authorization"] = "Bearer " \o gArgs.accessToken
              /\ gRequest.body = <<"json", gArgs.params>>

\* C18: every failed graphAPI call throws one error, and the error thrown,
\* whatever its kind, carries the operation context graphAPI(<endpoint>) and
\* the attempt count retryAttempts + 1 in its metadata.
C18_ThrownErrorCarriesContext ==
  gPc = "thrown"
    => /\ gResult.name \in FacebookKinds
       /\ gResult.context = "graphAPI"
       /\ gResult.metaAttempt = retryAttempts + 1

(***************************************************************************)
(* token cache: properties                                                 *)
(***************************************************************************)

\* C1: resolveAccessToken calls made concurrently (before the first resolution
\* is cleaned up and with no setAccessToken or clearAccessToken in between),
\* all without explicit token and with default options, on an initially empty
\* cache and with the SDK available, start exactly one credential-source
\* resolution, and every caller is served by it: it awaits that one
\* resolution or is handed the token that resolution cached.
C1_SingleFlight ==
  (/\ ~tDisturbed
   /\ \A i \in 1..Len(tCalls) : tCalls[i].dflt /\ tCalls[i].how # "nosdk")
    => /\ Len(tPromises) <= 1
       /\ (tCalls # <<>> => Len(tPromises) = 1)
       /\ \A i \in 1..Len(tCalls) :
            \/ tCalls[i].how \in {"new", "join"} /\ tCalls[i].p = 1
            \/ /\ tCalls[i].how = "cache"
               /\ tPromises[1].inner = "resolved"
               /\ tCalls[i].val = tPromises[1].value

\* C1 witness: two concurrent default callers share one resolution, which has
\* succeeded and is about to be cleaned up
C1_Witness ==
  /\ ~tDisturbed
  /\ Len(tCalls) = 2
  /\ \A i \in 1..2 : tCalls[i].dflt
  /\ tCalls[1].how = "new"
  /\ tCalls[2].how = "join"
  /\ Len(tPromises) = 1
  /\ tPromises[1].inner = "resolved"
  /\ ~tPromises[1].cleaned

\* the credential-source resolutions whose callback has not come yet
InFlight == {p \in 1..Len(tPromises) : tPromises[p].inner = "pending"}

\* C12: in every reachable state, over any interleaving of resolveAccessToken
\* calls with any options, setAccessToken, clearAccessToken and
\* credential-source callbacks, at most one credential-source resolution is
\* in flight.
C12_AtMostOneInFlight == Cardinality(InFlight) <= 1

\* C13: getCachedAccessToken() returns null whenever nothing is cached or
\* now >= expiresAt - 5000 ms, and the cached value whenever a value is cached
\* and now < expiresAt - 5000 ms; it reads the cache and the clock and writes
\* nothing.
C13_PeekHonoursExpiryMargin ==
  /\ (cachedAccessToken = Null \/ now >= cachedExpiresAtMs - 5000)
       => getCachedAccessToken = Null
  /\ (cachedAccessToken # Null /\ now < cachedExpiresAtMs - 5000)
       => getCachedAccessToken = cachedAccessToken

\* C13 witness: a cached token exactly 5000 ms from its expiry is not returned
C13_Witness ==
  /\ cachedAccessToken > 0
  /\ now > 0
  /\ now = cachedExpiresAtMs - 5000
  /\ getCachedAccessToken = Null

\* C14: a resolveAccessToken call with no explicit token and default options
\* takes the cache exactly when getCachedAccessToken() would return non-null;
\* made while the cached value is valid for more than 5000 ms it returns the
\* cached value and starts no credential-source resolution.
C14_CacheTakenWhenValid ==
  [][(Len(tCalls') = Len(tCalls) + 1 /\ tCalls'[Len(tCalls')].dflt)
       => /\ (tCalls'[Len(tCalls')].how = "cache") <=> (getCachedAccessToken # Null)
          /\ (cachedAccessToken > 0 /\ cachedExpiresAtMs - now > 5000)
               => /\ tCalls'[Len(tCalls')].how = "cache"
                  /\ tCalls'[Len(tCalls')].val = cachedAccessToken
                  /\ tCalls'[Len(tCalls')].p = 0
                  /\ tPromises' = tPromises]_vars

\* C14 witness: after a resolution succeeded, the next default call was
\* served from the cache with the token that resolution stored
C14_Witness ==
  /\ Len(tCalls) = 2
  /\ tCalls[1].dflt /\ tCalls[1].how = "new"
  /\ tCalls[2].dflt /\ tCalls[2].how = "cache" /\ tCalls[2].val = SourceToken(1)
  /\ Len(tPromises) = 1

\* C15 as stated: resolveAccessToken given any non-empty string as token
\* returns exactly that string, leaves the cached value, the cached expiry and
\* the in-flight marker unchanged and starts no credential-source resolution.
C15_NonEmptyTokenReturned ==
  [][(Len(tCalls') = Len(tCalls) + 1 /\ tCalls'[Len(tCalls')].given # Null)
       => /\ tCalls'[Len(tCalls')].how = "explicit"
          /\ tCalls'[Len(tCalls')].val = tCalls'[Len(tCalls')].given
          /\ UNCHANGED <<cachedAccessToken, cachedExpiresAtMs, inFlightTokenPromise,
                         tPromises>>]_vars

\* C15: resolveAccessToken given a string that is non-empty after trimming
\* white space returns exactly that string, leaves the cached value, the
\* cached expiry and the in-flight marker unchanged and starts no
\* credential-source resolution, in every state of the cache.
C15_NonBlankTokenReturned ==
  [][(/\ Len(tCalls') = Len(tCalls) + 1
      /\ tCalls'[Len(tCalls')].given # Null
      /\ tCalls'[Len(tCalls')].given # Blank)
       => /\ tCalls'[Len(tCalls')].how = "explicit"
          /\ tCalls'[Len(tCalls')].val = tCalls'[Len(tCalls')].given
          /\ UNCHANGED <<cachedAccessToken, cachedExpiresAtMs, inFlightTokenPromise,
                         tPromises>>]_vars

\* C15 witness: an explicit token was returned while a resolution was in
\* flight and another token sat valid in the cache
C15_Witness ==
  /\ Len(tCalls) = 2
  /\ tCalls[2].how = "explicit"
  /\ tCalls[2].val = 4
  /\ inFlightTokenPromise = 1
  /\ tPromises[1].inner = "pending"
  /\ getCachedAccessToken = 3

\* C16: after clearAccessToken(), until a later setAccessToken or a resolution
\* started after the clear succeeds, getCachedAccessToken() returns null and
\* no resolution started before the clear is the one later callers join.
C16_ClearDropsEarlierResolutions ==
  tClearedAt # Null
    => /\ getCachedAccessToken = Null
       /\ (inFlightTokenPromise = 0 \/ inFlightTokenPromise > tClearedAt)

\* C26: when the credential source reports a not-connected state, every call
\* awaiting that resolution, the one that started it and every one that
\* joined it, fails with a FacebookPermissionError whose missingPermissions is
\* the missingContext that call itself passed.
C26_RejectionCarriesCallersContext ==
  \A i \in 1..Len(tCalls) :
    (tCalls[i].how \in {"new", "join"} /\ tPromises[tCalls[i].p].inner = "rejected")
      => /\ RejectionOf(tCalls[i].p).name = "FacebookPermissionError"
         /\ RejectionOf(tCalls[i].p).missingPermissions = tCalls[i].missing

\* C27: setAccessToken(value, expiresInSeconds) overwrites the cache whatever
\* it held: a non-empty string is cached with expiresAt = now +
\* expiresInSeconds * 1000, or now + 1 hour when no expiry is passed; a
\* non-string clears the cache (null, expiry 0); the in-flight marker stays.
C27_SetOverwritesCache ==
  [][\A token \in SetTokens, expiresInSeconds \in ExpiresInChoices :
       setAccessTokenWith(token, expiresInSeconds)
         => /\ inFlightTokenPromise' = inFlightTokenPromise
            /\ token > 0
                 => /\ cachedAccessToken' = token
                    /\ cachedExpiresAtMs' = IF expiresInSeconds = Null
                                              THEN now + 3600000
                                              ELSE now + expiresInSeconds * 1000
            /\ token = Null
                 => cachedAccessToken' = Null /\ cachedExpiresAtMs' = 0]_vars

\* C28: once a resolution has settled, by success or by failure, and its
\* cleanup has run (which is before any caller awaiting it resumes), the
\* in-flight marker no longer names it, so no later call is handed that
\* resolution: every call that joined it did so before.
C28_SettledResolutionIsNotShared ==
  \A p \in 1..Len(tPromises) :
    tPromises[p].cleaned
      => /\ tPromises[p].inner \in {"resolved", "rejected"}
         /\ inFlightTokenPromise # p

\* C28 witness: the first resolution failed and was cleaned up; the next call,
\* with nothing cached, started a second resolution
C28_Witness ==
  /\ Len(tCalls) = 2
  /\ tCalls[1].how = "new" /\ tCalls[1].p = 1
  /\ tPromises[1].inner = "rejected"
  /\ tPromises[1].cleaned
  /\ tCalls[2].dflt /\ tCalls[2].how = "new" /\ tCalls[2].p = 2
  /\ inFlightTokenPromise = 2

\* C29: clearAccessToken() leaves the cache empty, the expiry 0 and the marker
\* null whatever they were, so a second call changes nothing; and a
\* resolveAccessToken call after it with no token, nothing cached and no
\* credential source fails with FacebookSDKError and leaves the cache as it is.
C29_ClearIdempotentThenNoToken ==
  [][/\ clearAccessToken
          => /\ cachedAccessToken' = Null
             /\ cachedExpiresAtMs' = 0
             /\ inFlightTokenPromise' = 0
     /\ (/\ Len(tCalls') = Len(tCalls) + 1
         /\ tClearedAt # Null
         /\ ~sdkLoaded
         /\ cachedAccessToken = Null
         /\ tCalls'[Len(tCalls')].given = Null)
          => /\ tCalls'[Len(tCalls')].how = "nosdk"
             /\ UNCHANGED <<cachedAccessToken, cachedExpiresAtMs, inFlightTokenPromise,
                            tPromises>>]_vars

\* C29 witness: with no SDK loaded, a call after clearAccessToken() failed
\* for want of a token and the cache is still empty
C29_Witness ==
  /\ ~sdkLoaded
  /\ tClearedAt # Null
  /\ Len(tCalls) = 1
  /\ tCalls[1].how = "nosdk"
  /\ cachedAccessToken = Null
  /\ cachedExpiresAtMs = 0
  /\ inFlightTokenPromise = 0

(***************************************************************************)
(* getAllLeads: properties                                                 *)
(***************************************************************************)

\* C8: the collected array never holds more than maxLeads items, whatever
\* pages the provider returns.
C8_NeverExceedsMaxLeads == Len(allLeads) <= maxLeads

\* C9: getAllLeads stops at the first page that returned no items, carried no
\* further cursor or brought the count to maxLeads: every page followed by a
\* further fetch had items, a next link and a cursor, and left the count
\* below maxLeads.
C9_StopsAtFirstTerminalPage ==
  \A i \in 1..(Len(lFetches) - 1) :
    /\ lFetches[i].n > 0
    /\ lFetches[i].next
    /\ lFetches[i].cursor # 0
    /\ lFetches[i].total < maxLeads

\* ceil(a / b)
CeilDiv(a, b) == (a + b - 1) \div b

\* every page received so far is what a provider with pages of c items and at
\* least maxLeads items sends: min(limit, c) items, a next link and a cursor
ProviderOfPageSize(c) ==
  \A k \in 1..Len(lFetches) :
    lFetches[k].n # Null
      => /\ lFetches[k].n = Min(lFetches[k].limit, c)
         /\ lFetches[k].next
         /\ lFetches[k].cursor # 0

\* C21: with maxLeads = M and a provider that returns min(limit, c) items per
\* page (c <= 100) with a next cursor, getAllLeads never issues more than
\* ceil(M/c) fetches, and when it returns it has issued exactly ceil(M/c) and
\* holds exactly M items in the provider's order.
C21_FetchesCeilOfMaxOverPage ==
  \A c \in 1..PageCap :
    (lFetches # <<>> /\ ProviderOfPageSize(c))
      => /\ Len(lFetches) <= CeilDiv(maxLeads, c)
         /\ lPc = "returned"
              => /\ Len(lFetches) = CeilDiv(maxLeads, c)
                 /\ Len(allLeads) = maxLeads
                 /\ \A i \in 1..maxLeads :
                      allLeads[i] = <<((i - 1) \div c) + 1, ((i - 1) % c) + 1>>

\* C21 witness: maxLeads 30 and pages of 25: two fetches, 25 then 5 items
C21_Witness ==
  /\ lPc = "returned"
  /\ maxLeads = 30
  /\ Len(lFetches) = 2
  /\ lFetches[1].limit = 30 /\ lFetches[1].n = 25
  /\ lFetches[2].limit = 5 /\ lFetches[2].n = 5
  /\ Len(allLeads) = 30
  /\ allLeads[26] = <<2, 1>>

\* C22: every page request asks for limit = min(100, maxLeads - collected so
\* far), and that limit is at least 1.
C22_LimitIsRemainingCappedAndPositive ==
  \A k \in 1..Len(lFetches) :
    LET collected == IF k = 1 THEN 0 ELSE lFetches[k - 1].total
        remaining == maxLeads - collected
    IN /\ lFetches[k].limit = IF remaining > 100 THEN 100 ELSE remaining
       /\ lFetches[k].limit >= 1

\* C22 witness: maxLeads 101 asks for 100 items, then for the one remaining
C22_Witness ==
  /\ maxLeads = 101
  /\ Len(lFetches) = 2
  /\ lFetches[1].limit = 100
  /\ lFetches[1].total = 100
  /\ lFetches[2].limit = 1

\* the data of the first k fetches, page after page
RECURSIVE PagesUpTo(_)
PagesUpTo(k) ==
  IF k = 0 THEN <<>>
  ELSE PagesUpTo(k - 1) \o [j \in 1..lFetches[k].n |-> <<k, j>>]

\* C23: the array collected is the data of the fetched pages concatenated in
\* fetch order, each page in provider order; the first request carries the
\* caller's options.after and each later one the paging.cursors.after of the
\* response just before it.
C23_FlatInFetchOrderAndCursorChained ==
  /\ allLeads = PagesUpTo(Len(lFetches))
  /\ lFetches # <<>> => lFetches[1].after = optionsAfter
  /\ \A k \in 2..Len(lFetches) : lFetches[k].after = lFetches[k - 1].cursor

\* C23 witness: two pages collected, the first asked for from the caller's
\* cursor 9, the second from the cursor 2 the first response carried
C23_Witness ==
  /\ lPc = "returned"
  /\ optionsAfter = 9
  /\ Len(lFetches) = 2
  /\ lFetches[1].after = 9 /\ lFetches[1].n = 1 /\ lFetches[1].cursor = 2
  /\ lFetches[2].after = 2 /\ lFetches[2].n = 1
  /\ allLeads = <<<<1, 1>>, <<2, 1>>>>

(***************************************************************************)
(* batchGraphAPI: properties                                               *)
(***************************************************************************)

\* ceil(n / 50)
GroupCount(n) == (n + batchSize - 1) \div batchSize

\* C10: the groups are consecutive slices of the input, each of at most 50
\* items and each but the last of exactly 50; a dispatch of n >= 1
\* sub-requests never issues more than ceil(n/50) outer calls and has issued
\* exactly ceil(n/50) when it returns.
C10_GroupsOfAtMostFifty ==
  /\ \A g \in 1..Len(bGroups) :
       /\ Len(bGroups[g]) <= batchSize
       /\ Len(bGroups[g]) >= 1
       /\ g < GroupCount(requests) => Len(bGroups[g]) = batchSize
       /\ \A k \in 1..Len(bGroups[g]) : bGroups[g][k] = (g - 1) * batchSize + k
  /\ Len(bGroups) <= GroupCount(requests)
  /\ bPc = "returned"
       => /\ Len(bGroups) = GroupCount(requests)
          /\ Len(bGroups[Len(bGroups)]) = requests - (Len(bGroups) - 1) * batchSize

\* C10 witness: 120 sub-requests dispatched as groups of 50, 50 and 20
C10_Witness ==
  /\ bPc = "returned"
  /\ requests = 120
  /\ Len(bGroups) = 3
  /\ Len(bGroups[1]) = 50
  /\ Len(bGroups[2]) = 50
  /\ Len(bGroups[3]) = 20

\* C11: when every group call succeeds with one response per sub-request in
\* group order, the array returned is the group responses concatenated in
\* group order: result[i] is the response to requests[i] for every i; while
\* groups are still outstanding the array holds the responses to the requests
\* of the groups already answered.
C11_ResultsInRequestOrder ==
  /\ bPc = "returned"
       => /\ Len(results) = requests
          /\ \A i \in 1..requests : results[i] = ResponseTo(i)
  /\ bPc = "calling"
       => /\ Len(results) = bI
          /\ \A i \in 1..bI : results[i] = ResponseTo(i)

\* C11 witness: three groups answered, 120 responses in the order of the input
C11_Witness ==
  /\ bPc = "returned"
  /\ requests = 120
  /\ Len(bGroups) = 3
  /\ Len(results) = 120
  /\ results[1] = ResponseTo(1)
  /\ results[51] = ResponseTo(51)
  /\ results[120] = ResponseTo(120)

\* C24: when the outer call of a group fails, the dispatch is over: the
\* failing group is the last one sent, nothing is returned, and the error
\* thrown is the causing error, of the same kind and code, with context
\* batchGraphAPI and metadata batchSize equal to the size of the failing group.
C24_GroupFailureAbortsDispatch ==
  bCause # NoError
    => /\ bPc = "thrown"
       /\ Len(bGroups) = (bI \div batchSize) + 1
       /\ bError.name = bCause.name
       /\ bError.code = bCause.code
       /\ bError.context = "batchGraphAPI"
       /\ bError.metaBatchSize = Len(bGroups[Len(bGroups)])
       /\ bError.metaBatchSize = IF requests - bI < 50 THEN requests - bI ELSE 50

\* C24 witness: of 120 sub-requests the second group of 50 fails with a
\* FacebookAuthError: two groups were sent, the third never is
C24_Witness ==
  /\ bPc = "thrown"
  /\ requests = 120
  /\ Len(bGroups) = 2
  /\ Len(results) = 50
  /\ bCause.name = "FacebookAuthError"
  /\ bError.name = "FacebookAuthError"
  /\ bError.metaBatchSize = 50

\* C25: batchGraphAPI called with an empty array or with something that is no
\* array throws a plain Error, no Facebook error kind, before any group is
\* sent.
C25_EmptyInputIsPlainError ==
  (bPc # "idle" /\ (requests = Null \/ requests = 0))
    => /\ bPc = "thrown"
       /\ bError.name = "Error"
       /\ bError.name \notin FacebookKinds
       /\ bError.context = ""
       /\ bGroups = <<>>
       /\ results = <<>>

\* C25 witness: a call that passed no array has thrown the plain Error
C25_Witness ==
  /\ bPc = "thrown"
  /\ requests = Null
  /\ bError.name = "Error"
  /\ bGroups = <<>>

(***************************************************************************)
(* the fan-out over several forms or pages: properties                     *)
(***************************************************************************)
\* what the fetch at input position j settled with, as an entry of the result
OutcomeAt(j) ==
  IF mResponses[j].success
    THEN mResponses[j].leads
    ELSE [error |-> mResponses[j].error]

\* C30: a parallel getLeadsFromMultipleForms / getLeadFormsFromMultiplePages
\* call over N >= 1 identifiers never rejects, whatever order the fetches
\* settle in; its result has exactly one entry per input identifier, and that
\* entry is the outcome of a fetch made for that identifier: the data it
\* returned, or {error} with its own message when it failed.
C30_EachIdentifierItsOwnOutcome ==
  parallel =>
    /\ mPc = "thrown" => IsNoIdArray(mIsArray, mIds)
    /\ mPc = "returned" =>
         /\ DOMAIN mResults = {mIds[i] : i \in 1..Len(mIds)}
         /\ \A i \in 1..Len(mIds) :
              /\ mResults[mIds[i]] \in
                   {OutcomeAt(j) : j \in {k \in 1..Len(mIds) : mIds[k] = mIds[i]}}
              /\ Cardinality({k \in 1..Len(mIds) : mIds[k] = mIds[i]}) = 1
                   => mResults[mIds[i]] = OutcomeAt(i)

\* C30 witness: two identifiers fetched in parallel, the second settling
\* first with data, the first failing afterwards
C30_Witness ==
  /\ mPc = "returned"
  /\ parallel
  /\ mIds = <<"id1", "id2">>
  /\ mOrder = <<2, 1>>
  /\ ~mResponses[1].success
  /\ mResponses[2].success
  /\ mResults["id1"] = [error |-> "timeout"]
  /\ mResults["id2"] = [data |-> "r2"]

(***************************************************************************)
(* graphAPI: the retry budget                                              *)
(***************************************************************************)
\* an attempt that failed with a 5xx or 429 answer or with a transport failure
RetryableFailure(entry) ==
  \/ entry.status >= 500
  \/ entry.status = 429
  \/ entry.name = "TypeError"

AllRetryableFailures == \A k \in 1..Len(gLog) : RetryableFailure(gLog[k])

\* the kind and code the error of a retryable failure is classified to
ClassifiedAs(entry, err) ==
  IF entry.name = "TypeError"
    THEN err.name = "FacebookAPIError" /\ err.code = "NETWORK_ERROR"
  ELSE IF entry.name = "SyntaxError"
    THEN err.name = "FacebookAPIError" /\ err.code = "GENERIC_ERROR"
  ELSE /\ err.name = entry.name
       /\ err.name = "FacebookAPIError" => err.statusCode = entry.status

Bare(err) ==
  [err EXCEPT !.context = "", !.metaAttempt = Null, !.metaBatchSize = Null]

\* C36: an error that carries the context and metadata graphAPI gave it keeps
\* them through every outer catch block it passes (getLeads, getAllLeads,
\* batchGraphAPI): context and metadata are attached once.
C36_ContextAttachedOnce ==
  \A k \in 1..Len(eChain) :
    eChain[1].context = "graphAPI"
      => /\ eChain[k].context = eChain[1].context
         /\ eChain[k].metaAttempt = eChain[1].metaAttempt
         /\ eChain[k].metaBatchSize = eChain[1].metaBatchSize

\* C37: an error of one of the five Facebook kinds leaves every number of
\* nested handleError applications as the same error, name and code
\* included; any other error is wrapped once, into a FacebookAPIError of code
\* NETWORK_ERROR or GENERIC_ERROR or a FacebookTimeoutError, and that
\* wrapper keeps its kind from then on.
C37_KindSurvivesHandleError ==
  \A k \in 1..Len(eChain) :
    /\ eSource.name \in FacebookKinds
         => /\ eChain[k].name = eSource.name
            /\ eChain[k].code = eSource.code
            /\ Bare(eChain[k]) = Bare(eSource)
    /\ eSource.name \notin FacebookKinds
         => /\ <<eChain[k].name, eChain[k].code>> \in
                 {<<"FacebookAPIError", "NETWORK_ERROR">>,
                  <<"FacebookAPIError", "GENERIC_ERROR">>,
                  <<"FacebookTimeoutError", "TIMEOUT_ERROR">>}
            /\ Bare(eChain[k]) = Bare(eChain[1])

\* C37 witness: a FacebookAuthError classified from a response has passed
\* three catch blocks and is still the FacebookAuthError it was
C37_Witness ==
  /\ Len(eChain) = 3
  /\ eSource = eError
  /\ eSource.name = "FacebookAuthError"
  /\ eChain[1].context = "graphAPI"
  /\ eChain[2].context = "getLeads"
  /\ eChain[3].context = "getAllLeads"
  /\ eChain[3].name = "FacebookAuthError"
  /\ eChain[3].code = eSource.code

\* the last input position at which an identifier stands
LastPositionOf(id) ==
  CHOOSE j \in 1..Len(mIds) :
    mIds[j] = id /\ \A k \in (j + 1)..Len(mIds) : mIds[k] # id

\* the result map as a function of the identifiers and the per-form outcomes
\* alone
ResultMapOf ==
  [id \in {mIds[i] : i \in 1..Len(mIds)} |-> OutcomeAt(LastPositionOf(id))]

\* C38: for given formIds and given per-form outcomes getLeadsFromMultipleForms
\* returns one and the same result map whether it ran with parallel = true
\* or with parallel = false: the same keys, the leads of every form that
\* succeeded and {error: message} for every form that failed.
C38_ParallelAndSequentialAgree ==
  (mPc = "returned" /\ mFn = "getLeadsFromMultipleForms")
    => mResults = ResultMapOf

\* C38 witness: a sequential run over two forms, the first failing and the
\* second succeeding
C38_Witness ==
  /\ mPc = "returned"
  /\ mFn = "getLeadsFromMultipleForms"
  /\ ~parallel
  /\ mIds = <<"id1", "id2">>
  /\ mResults["id1"] = [error |-> "other"]
  /\ mResults["id2"] = [data |-> "r1"]

(***************************************************************************)
(* per-call options and the global configuration: properties               *)
(***************************************************************************)
\* C34: the options of a graphAPI call are local to it: a call runs with the
\* option it was passed for every setting it overrides and with the global
\* value, as it stands when the call starts, for every other one, whatever
\* earlier or concurrent calls were passed; and neither the start nor the
\* end of a call changes the global configuration.
C34_OverridesAreLocal ==
  [][/\ kCalls' # kCalls => globalConfig' = globalConfig
     /\ Len(kCalls') = Len(kCalls) + 1 =>
          LET call == kCalls'[Len(kCalls')] IN
          /\ \A f \in ConfigFields :
               call.settings[f] = IF f \in DOMAIN call.options
                                    THEN call.options[f]
                                    ELSE globalConfig[f]
          /\ \A i \in 1..Len(kCalls) : kCalls'[i] = kCalls[i]]_vars

\* C34 witness: a call overriding all four settings is still running when a
\* call without options starts and runs with the defaults
C34_Witness ==
  /\ Len(kCalls) = 2
  /\ ~kCalls[1].ended
  /\ kCalls[1].settings =
       [version |-> "v19.0", timeout |-> 5, retryAttempts |-> 0, retryDelay |-> 1]
  /\ DOMAIN kCalls[2].options = {}
  /\ kCalls[2].settings = DEFAULT_CONFIG
  /\ globalConfig = DEFAULT_CONFIG

(***************************************************************************)
(* graphAPI calls side by side: properties                                 *)
(***************************************************************************)
\* C33: of graphAPI calls running at the same time, none has an attempt
\* rejected by an abort unless its own timer fired, and a call's signal is
\* aborted only by that call's timer: the timeout of one call never aborts
\* or fails an attempt of another.
C33_AbortStaysWithinItsCall ==
  \A c \in GraphCalls :
    /\ pAbortSeen[c] => pTimerFired[c]
    /\ pAborted[ControllerOf(c)] => pTimerFired[c]

\* C33 witness: the first call timed out and its attempt was rejected, while
\* the second call's attempt is still pending, unaborted, with its own timer
\* armed
C33_Witness ==
  /\ pTimerFired[1]
  /\ pAbortSeen[1]
  /\ pPc[2] = "awaiting"
  /\ pTimerArmed[2]
  /\ ~pTimerFired[2]
  /\ ~pAborted[ControllerOf(2)]
  /\ ~pAbortSeen[2]

(***************************************************************************)
(* managesPage: properties                                                 *)
(***************************************************************************)
\* the managed-pages response holds a page with the id asked for
ResponseHoldsPage ==
  /\ qPages.kind = "response"
  /\ qPages.data = "array"
  /\ qPageId \in {qPages.pages[i] : i \in 1..Len(qPages.pages)}

\* C32: managesPage never throws; it returns false whenever the fetch or the
\* token resolution under it failed, whatever the kind of the error, and it
\* returns true exactly when the managed-pages response holds a page with the
\* given id.
C32_ManagesPageDegradesToFalse ==
  /\ qPc # "thrown"
  /\ qPc = "returned" =>
       /\ qResult \in {"true", "false"}
       /\ qPages.kind = "error" => qResult = "false"
       /\ qResult = "true" <=> ResponseHoldsPage

\* C32 witness: getPages failed for want of a login and managesPage returned
\* false
C32_Witness ==
  /\ qPc = "returned"
  /\ qPages.kind = "error"
  /\ qPages.error.name = "FacebookPermissionError"
  /\ qPage = "throw"
  /\ qResult = "false"

\* C32 second case reached as well: the page stands second in the response
C32_WitnessFound ==
  /\ qPc = "returned"
  /\ qPageId = "p2"
  /\ qPages.pages = <<"p1", "p2">>
  /\ qResult = "true"

(***************************************************************************)
(* the resource helpers: properties                                        *)
(***************************************************************************)
\* C31: when a helper documented with an optional token is called without
\* one and the session is connected, every HTTP request it issues carries
\* the token resolveAccessToken resolved from the session.
C31_HelpersCarryResolvedToken ==
  (hPc # "idle" /\ hGiven = NoTokenArg /\ hSession = "connected")
    => \A i \in 1..Len(hCarried) : hCarried[i] = SdkToken

====
